---------------------------- MODULE Spec2Model ----------------------------
(***************************************************************************)
(* A model of the BFSK reference modem (modems/bfsk/__init__.py) and of    *)
(* the forward-error-correction codecs it uses (amw/pipeline/fec.py).      *)
(*                                                                         *)
(* Bit arrays are sequences over {0, 1}; numpy index arrays are sequences  *)
(* of 0-based indices, as in the source.  A dict is a record that holds    *)
(* the keys the code has set.  Floating-point correlation scores are kept  *)
(* in hundredths (0.3 is 30).                                              *)
(***************************************************************************)
EXTENDS Integers, Sequences, FiniteSets, TLC

VARIABLES
    \* harness of _interleave_bits / _deinterleave_bits
    il_pc, il_bits, il_depth, il_mid, il_out,
    \* harness of the FEC codecs
    fec_pc, fec_config, fec_data, fec_word, fec_flips, fec_out,
    \* the modem: one encode call, the channel, one decode call
    pc,         \* "idle", "encoded", "failed", "received", "decoded"
    params,     \* the params dict given to encode and to decode
    payload,    \* the bytes given to encode
    tx,         \* what encode returned or raised
    signal,     \* the waveform given to decode
    rx,         \* what decode returned or raised, with its locals
    \* the sample buffers of one decode call
    agc_pc,     \* "called", "built", "asarray", "copied", "scaled", "returned", "raised"
    agc_scheme, \* the FEC scheme of the call's params
    agc_given,  \* the caller's buffer as it was when decode was called
    agc_heap,   \* the sample buffers that exist, by name
    agc_refs,   \* the buffer each local of decode is bound to
    \* one _synchronize call on a capture whose correlation scores are given
    sync_pc,    \* "call", "done"
    sync_in,    \* size of the signal, length of the preamble, candidates
    sync_score, \* the score _correlate gives at each (samples_per_bit, start)
    sync_out,   \* what _synchronize returned
    \* encode and decode calls running interleaved
    cc_pc,       \* of each call: "called", "merged", "parsed", "returned"
    cc_call,     \* of each call: the operation, its params and its input
    cc_defaults, \* the module's DEFAULT_PARAMS dict, which every call reads
    cc_config,   \* of each call: its config dict
    cc_fec,      \* of each call: the fec dict it parsed
    cc_result,   \* of each call: what it returned
    \* PipelineOrchestrator.record
    rec_pc,      \* "called", "loop" (at the head of the while), "returned", "raised"
    rec_args,    \* the arguments of record and the plugin's sample rate
    rec_limits,  \* chunk_samples, silence_limit, max_samples
    rec_loop,    \* collected, total_samples, trailing_silence, chunk_count
    rec_calls,   \* invocations of the stop_condition callback so far
    rec_result,  \* what record returned
    \* PipelineOrchestrator
    pl_context,   \* _context: None, or the plugin and params configured
    pl_state,     \* state
    pl_artifacts, \* artifacts
    pl_since,     \* the operations that succeeded since configure last did
    pl_last       \* the last call: its name, its outcome, the pipeline before it

ilVars    == <<il_pc, il_bits, il_depth, il_mid, il_out>>
fecVars   == <<fec_pc, fec_config, fec_data, fec_word, fec_flips, fec_out>>
modemVars == <<pc, params, payload, tx, signal, rx>>
agcVars   == <<agc_pc, agc_scheme, agc_given, agc_heap, agc_refs>>
syncVars  == <<sync_pc, sync_in, sync_score, sync_out>>
ccVars    == <<cc_pc, cc_call, cc_defaults, cc_config, cc_fec, cc_result>>
recVars   == <<rec_pc, rec_args, rec_limits, rec_loop, rec_calls, rec_result>>
plVars    == <<pl_context, pl_state, pl_artifacts, pl_since, pl_last>>
auxVars   == <<agcVars, syncVars, ccVars, recVars, plVars>>
vars      == <<ilVars, fecVars, modemVars, auxVars>>

(***************************************************************************)
(* Bounds of the model.                                                    *)
(***************************************************************************)
MaxBits  == 5      \* longest bit array given to the interleaver
MaxDepth == 4      \* largest interleave depth tried
MaxData  == 5      \* longest data bit array given to the Hamming codec
MaxRepData == 2    \* longest data bit array given to the other codecs
MaxFlips == 2      \* most bits flipped in one repetition-encoded array
MaxWord  == 8      \* longest arbitrary bit array given to a codec's decode
MaxPayload == 1    \* most bytes in a payload given to encode
MaxSlack == 9      \* most samples a capture has beyond one preamble
MaxCalls == 2      \* encode and decode calls running at once
MaxChunks == 3     \* most chunks one streaming record is followed for

\* The value of a variable before the call that sets it.
Absent == "absent"

\* dict.update(new), {**dict, **new}
Update(dict, new) == new @@ dict

Has(dict, key) == key \in DOMAIN dict
Bit    == {0, 1}

Max(a, b) == IF a >= b THEN a ELSE b
Min(a, b) == IF a <= b THEN a ELSE b

BitSeqs(n) == UNION {[1..k -> Bit] : k \in 0..n}

RECURSIVE SumSeq(_)
SumSeq(s) == IF s = <<>> THEN 0 ELSE Head(s) + SumSeq(Tail(s))

Zeros(n) == [i \in 1..n |-> 0]

Range(s) == {s[i] : i \in DOMAIN s}

(***************************************************************************)
(* Interleaver: modems/bfsk/__init__.py                                    *)
(***************************************************************************)

\* The grid is read column by column; cell k (0-based, column-major) is
\* row k % rows of column k \div rows, and holds index row * depth + column.
\* A faulty variant: the row count rounds down instead of up.
_interleave_indices_floor_rows(length, depth0) ==
    LET depth == Max(depth0, 1) IN
    IF depth = 1 \/ length <= 1 THEN [i \in 1..length |-> i - 1]
    ELSE LET rows == length \div depth
             cell(k) == ((k - 1) % rows) * depth + ((k - 1) \div rows)
             grid == [k \in 1..(depth * rows) |-> cell(k)]
         IN  SelectSeq(grid, LAMBDA idx : idx < length)

_interleave_indices(length, depth0) ==
    LET depth == Max(depth0, 1) IN
    IF depth = 1 \/ length <= 1 THEN [i \in 1..length |-> i - 1]
    ELSE LET rows == (length + depth - 1) \div depth
             cell(k) == ((k - 1) % rows) * depth + ((k - 1) \div rows)
             grid == [k \in 1..(depth * rows) |-> cell(k)]
         IN  SelectSeq(grid, LAMBDA idx : idx < length)

\* bits[order]: numpy fancy indexing with 0-based indices.
Take(bits, order) == [k \in 1..Len(order) |-> bits[order[k] + 1]]

_interleave_bits(bits, depth) ==
    IF depth <= 1 \/ Len(bits) = 0 THEN bits
    ELSE Take(bits, _interleave_indices(Len(bits), depth))

\* restore[order] = arange(order.size): restore[order[k]] = k.
Restore(order) ==
    [j \in 1..Len(order) |->
        (CHOOSE k \in 1..Len(order) : order[k] = j - 1) - 1]

_deinterleave_bits(bits, depth) ==
    IF depth <= 1 \/ Len(bits) = 0 THEN bits
    ELSE Take(bits, Restore(_interleave_indices(Len(bits), depth)))

(***************************************************************************)
(* FEC codecs: amw/pipeline/fec.py                                         *)
(***************************************************************************)
FECConfig(scheme, repetition_factor) ==
    [scheme |-> scheme, repetition_factor |-> repetition_factor]

\* str.lower() on the scheme names the model uses.
Lower(name) ==
    CASE name = "NONE"       -> "none"
      [] name = "Repetition" -> "repetition"
      [] name = "HAMMING74"  -> "hamming74"
      [] OTHER               -> name

\* _RepetitionCodec.__init__: the error it raises, or "ok".
_RepetitionCodec_init(factor) ==
    IF factor < 1 THEN "ValueError"
    ELSE IF factor % 2 = 0 THEN "ValueError"
    ELSE "ok"

\* build_codec: the codec built, or the error raised.
build_codec(config) ==
    LET scheme == Lower(config.scheme) IN
    IF scheme = "none" THEN [kind |-> "noop", factor |-> 0, error |-> "ok"]
    ELSE IF scheme = "repetition"
        THEN [kind |-> "repetition", factor |-> config.repetition_factor,
              error |-> _RepetitionCodec_init(config.repetition_factor)]
    ELSE IF scheme = "hamming74"
        THEN [kind |-> "hamming74", factor |-> 0, error |-> "ok"]
    ELSE [kind |-> "unsupported", factor |-> 0, error |-> "ValueError"]

_NoOpCodec_encode(bits) == bits

_NoOpCodec_decode(bits) ==
    [error |-> "ok", bits |-> bits,
     metrics |-> [corrected_bits |-> 0, uncorrectable_blocks |-> 0]]

\* array.reshape(-1, width) on an array of the given size: the error it
\* raises, or "ok".
np_reshape(size, width) ==
    IF width = 0 \/ size % width # 0 THEN "ValueError" ELSE "ok"

\* A variant that keeps an incomplete last block.
UsableAll(size, width) == size

\* usable = (bits.size // width) * width
Usable(size, width) == (size \div width) * width

\* np.repeat(bits, factor): each bit factor times, contiguously.
_RepetitionCodec_encode(factor, bits) ==
    IF Len(bits) = 0 THEN bits
    ELSE [k \in 1..(Len(bits) * factor) |-> bits[((k - 1) \div factor) + 1]]

\* Arithmetic on numpy uint8 elements wraps modulo 256; abs() of an
\* unsigned value is the value.
U8Sub(a, b) == (a - b) % 256

\* np.abs(trimmed - majority[:, None]) summed over one row.
DistanceFromMajority(group, majority) ==
    SumSeq([j \in 1..Len(group) |-> U8Sub(group[j], majority)])

\* A variant that votes 1 on any one among the replicas.
MajorityAnyOne(ones, factor) == IF ones > 0 THEN 1 ELSE 0

\* (ones > factor // 2).astype(uint8)
Majority(ones, factor) == IF ones > (factor \div 2) THEN 1 ELSE 0

_RepetitionCodec_decode(factor, bits) ==
    IF Len(bits) = 0
    THEN [error |-> "ok", bits |-> bits,
          metrics |-> [corrected_bits |-> 0, uncorrectable_blocks |-> 0]]
    ELSE
    LET usable  == Usable(Len(bits), factor)
        groups  == usable \div factor
        row(g)  == SubSeq(bits, (g - 1) * factor + 1, g * factor)
        ones(g) == SumSeq(row(g))
        majority == [g \in 1..groups |-> Majority(ones(g), factor)]
        corrected ==
            SumSeq([g \in 1..groups |-> DistanceFromMajority(row(g), majority[g])])
    IN  IF np_reshape(usable, factor) # "ok"
        THEN [error |-> np_reshape(usable, factor)]
        ELSE
        [error |-> "ok", bits |-> majority,
         metrics |-> [corrected_bits |-> corrected,
                      uncorrectable_blocks |-> 0,
                      discarded_symbols |-> Len(bits) - usable]]

_generator ==
    << <<1, 1, 0, 1>>,
       <<1, 0, 1, 1>>,
       <<1, 0, 0, 0>>,
       <<0, 1, 1, 1>>,
       <<0, 1, 0, 0>>,
       <<0, 0, 1, 0>>,
       <<0, 0, 0, 1>> >>

_parity_check ==
    << <<1, 0, 1, 0, 1, 0, 1>>,
       <<0, 1, 1, 0, 0, 1, 1>>,
       <<0, 0, 0, 1, 1, 1, 1>> >>

Dot(a, b) == SumSeq([j \in 1..Len(a) |-> a[j] * b[j]])

_Hamming74Codec_encode(bits0) ==
    IF Len(bits0) = 0 THEN bits0
    ELSE
    LET pad  == (-Len(bits0)) % 4
        bits == IF pad # 0 THEN bits0 \o Zeros(pad) ELSE bits0
        blocks == Len(bits) \div 4
        data(b) == SubSeq(bits, (b - 1) * 4 + 1, b * 4)
        codeword(b) == [r \in 1..7 |-> Dot(_generator[r], data(b)) % 2]
    IN  [k \in 1..(blocks * 7) |-> codeword(((k - 1) \div 7) + 1)[((k - 1) % 7) + 1]]

\* A variant that reads the data bits from the first four positions.
DataPositionsLeading == <<0, 1, 2, 3>>

\* corrected[:, [2, 4, 5, 6]]
DataPositions == <<2, 4, 5, 6>>

\* A variant that weighs the third parity bit 8.
SyndromeIndexWide(block) ==
    LET syndrome == [r \in 1..3 |-> Dot(block, _parity_check[r]) % 2]
    IN  Dot(syndrome, <<1, 2, 8>>)

\* syndromes.dot(1 << np.arange(3)) for one block.
SyndromeIndex(block) ==
    LET syndrome == [r \in 1..3 |-> Dot(block, _parity_check[r]) % 2]
    IN  Dot(syndrome, <<1, 2, 4>>)

_Hamming74Codec_decode(bits) ==
    IF Len(bits) = 0
    THEN [error |-> "ok", bits |-> bits,
          metrics |-> [corrected_bits |-> 0, uncorrectable_blocks |-> 0,
                       discarded_symbols |-> 0]]
    ELSE
    LET usable == Usable(Len(bits), 7)
        blocks == usable \div 7
        trimmed(b) == SubSeq(bits, (b - 1) * 7 + 1, b * 7)
        syndrome(b) == SyndromeIndex(trimmed(b))
        corrected(b) ==
            IF syndrome(b) >= 1 /\ syndrome(b) <= 7
            THEN [j \in 1..7 |-> IF j - 1 = syndrome(b) - 1
                                   THEN 1 - trimmed(b)[j] ELSE trimmed(b)[j]]
            ELSE trimmed(b)
        corrected_blocks ==
            Cardinality({b \in 1..blocks : syndrome(b) >= 1 /\ syndrome(b) <= 7})
        uncorrectable ==
            Cardinality({b \in 1..blocks : syndrome(b) # 0
                                            /\ ~(syndrome(b) >= 1 /\ syndrome(b) <= 7)})
        data == [k \in 1..(blocks * 4) |->
                    corrected(((k - 1) \div 4) + 1)[DataPositions[((k - 1) % 4) + 1] + 1]]
    IN  IF np_reshape(usable, 7) # "ok"
        THEN [error |-> np_reshape(usable, 7)]
        ELSE
        [error |-> "ok", bits |-> data,
         metrics |-> [corrected_bits |-> corrected_blocks,
                      uncorrectable_blocks |-> uncorrectable,
                      discarded_symbols |-> Len(bits) - usable]]

\* codec.encode / codec.decode on a codec built by build_codec.
Codec_encode(codec, bits) ==
    CASE codec.kind = "noop"       -> _NoOpCodec_encode(bits)
      [] codec.kind = "repetition" -> _RepetitionCodec_encode(codec.factor, bits)
      [] codec.kind = "hamming74"  -> _Hamming74Codec_encode(bits)

Codec_decode(codec, bits) ==
    CASE codec.kind = "noop"       -> _NoOpCodec_decode(bits)
      [] codec.kind = "repetition" -> _RepetitionCodec_decode(codec.factor, bits)
      [] codec.kind = "hamming74"  -> _Hamming74Codec_decode(bits)

(***************************************************************************)
(* BFSK modem: modems/bfsk/__init__.py                                     *)
(***************************************************************************)
_HEADER_BITS == 32
_SYNC_TIMING_PCT == 2        \* 0.02, in hundredths
_SYNC_TIMING_STEPS == 5
_SYNC_MIN_SCORE == 30        \* 0.3, in hundredths
_SYNC_MIN_WINDOW == 8

None == [none |-> TRUE]

Abs(a) == IF a < 0 THEN -a ELSE a

\* int(a / b): the quotient truncated toward zero (b # 0).
IntTrunc(a, b) ==
    LET q == Abs(a) \div Abs(b) IN IF (a < 0) # (b < 0) THEN -q ELSE q

\* round(num / den): Python rounds a half to the even neighbour (den # 0).
Round(num0, den0) ==
    LET num == IF den0 < 0 THEN -num0 ELSE num0
        den == Abs(den0)
        floor == num \div den
        rest == num - floor * den
    IN  IF 2 * rest < den THEN floor
        ELSE IF 2 * rest > den THEN floor + 1
        ELSE IF floor % 2 = 0 THEN floor ELSE floor + 1

\* np.unpackbits of one uint8: most significant bit first.
UnpackByte(b) == [i \in 1..8 |-> (b \div (2 ^ (8 - i))) % 2]

\* np.packbits of eight bits.
PackByte(bits) == SumSeq([i \in 1..8 |-> bits[i] * (2 ^ (8 - i))])

UnpackBits(bytes) ==
    [k \in 1..(8 * Len(bytes)) |-> UnpackByte(bytes[((k - 1) \div 8) + 1])[((k - 1) % 8) + 1]]

PackBits(bits) ==
    [b \in 1..(Len(bits) \div 8) |-> PackByte(SubSeq(bits, (b - 1) * 8 + 1, b * 8))]

_preamble_array(preamble_bits) ==
    [i \in 1..Len(preamble_bits) |-> IF preamble_bits[i] = "1" THEN 1 ELSE 0]

_payload_bits(bytes) == IF bytes = <<>> THEN <<>> ELSE UnpackBits(bytes)

_length_header(bit_length) ==
    UnpackBits(<< (bit_length \div (2 ^ 24)) % 256,
                  (bit_length \div (2 ^ 16)) % 256,
                  (bit_length \div (2 ^ 8)) % 256,
                  bit_length % 256 >>)

_bits_to_bytes(bits) ==
    IF Len(bits) = 0 THEN <<>>
    ELSE LET pad == (-Len(bits)) % 8
         IN  PackBits(IF pad # 0 THEN bits \o Zeros(pad) ELSE bits)

\* "x or 3" replaces a zero factor by 3, "x or 1" a zero depth by 1 (a
\* missing key is the same as its default, 3 or 1, given).
_parse_fec_settings(raw) ==
    [config |-> FECConfig(Lower(raw.scheme),
                          IF raw.repetition_factor = 0
                          THEN 3 ELSE raw.repetition_factor),
     interleave_depth |-> Max(IF raw.interleave_depth = 0
                              THEN 1 ELSE raw.interleave_depth, 1)]

(***************************************************************************)
(* A waveform is kept as what the demodulator can tell of it: its number   *)
(* of samples, the samples of silence before the first tone and after the  *)
(* last, the number of samples each tone lasts, and the bit each tone      *)
(* stands for.  "silence" is a waveform whose samples are all zero, "nan"  *)
(* one whose samples are not numbers.                                      *)
(***************************************************************************)
Waveform(kind, size, lead, tail, spb, symbols) ==
    [kind |-> kind, size |-> size, lead |-> lead, tail |-> tail, spb |-> spb,
     symbols |-> symbols]

EmptyWaveform == Waveform("silence", 0, 0, 0, 1, <<>>)

\* An encode call that raised; otherwise the EncodeOutput, with the locals
\* bit_stream and samples_per_bit kept beside it.
Raised(error) == [error |-> error]

\* A variant that interleaves the frame bits and encodes the result.
InterleaveThenEncode(codec, frame_bits, depth) ==
    Codec_encode(codec,
                 IF depth > 1 /\ Len(frame_bits) > 0
                 THEN _interleave_bits(frame_bits, depth) ELSE frame_bits)

\* Lines 75-77 of encode: codec.encode, then the interleaver.
EncodeThenInterleave(codec, frame_bits, depth) ==
    LET encoded_bits == Codec_encode(codec, frame_bits)
    IN  IF depth > 1 /\ Len(encoded_bits) > 0
        THEN _interleave_bits(encoded_bits, depth)
        ELSE encoded_bits

\* encode(payload, params)
encode(bytes, config) ==
    LET sample_rate == config.sample_rate
        bit_rate == config.bitrate
        fec_settings == _parse_fec_settings(config.fec)
        codec == build_codec(fec_settings.config)
        preamble == _preamble_array(config.preamble_bits)
        payload_bits == _payload_bits(bytes)
        frame_bits == IF fec_settings.config.scheme = "none" THEN payload_bits
                      ELSE _length_header(Len(payload_bits)) \o payload_bits
        encoded_bits ==
            EncodeThenInterleave(codec, frame_bits, fec_settings.interleave_depth)
        bit_stream == preamble \o encoded_bits
        samples_per_bit == Max(IntTrunc(sample_rate, bit_rate), 1)
        \* time_axis = arange(samples_per_bit) / sample_rate: 0/0 is nan,
        \* and with one sample per bit every sample is sin(0) otherwise.
        kind == IF Len(bit_stream) = 0 THEN "silence"
                ELSE IF sample_rate = 0 THEN "nan"
                ELSE IF samples_per_bit = 1 THEN "silence"
                ELSE "tones"
    IN  IF codec.error # "ok" THEN Raised(codec.error)
        ELSE IF bit_rate = 0 THEN Raised("ZeroDivisionError")
        ELSE [error |-> "ok",
              waveform |-> Waveform(kind, Len(bit_stream) * samples_per_bit, 0, 0,
                                    samples_per_bit,
                                    IF kind = "tones" THEN bit_stream ELSE <<>>),
              bit_stream |-> bit_stream,
              samples_per_bit |-> samples_per_bit,
              metadata |-> [bit_count |-> Len(bit_stream),
                            fec |-> [scheme |-> fec_settings.config.scheme,
                                     repetition_factor |-> fec_settings.config.repetition_factor,
                                     interleave_depth |-> fec_settings.interleave_depth,
                                     payload_bits |-> Len(payload_bits),
                                     encoded_bits |-> Len(encoded_bits)]]]

(***************************************************************************)
(* Synchronization and demodulation.  The correlation scores are floating- *)
(* point results of the samples; the model takes them from the environment *)
(* and keeps what the code decides with them: which samples_per_bit values *)
(* and start offsets are scored at all, and what is done with the outcome. *)
(***************************************************************************)

\* A positive gain changes neither which samples are zero nor which tone a
\* symbol carries, which is all a Waveform records.
_apply_agc(wave) == wave

\* np.linspace(-pct, pct, steps)[i], as a numerator over 100 * (steps - 1).
TimingOffset(i) == (2 * i - (_SYNC_TIMING_STEPS - 1)) * _SYNC_TIMING_PCT

\* sorted({max(_SYNC_MIN_WINDOW, int(round(nominal_spb * (1.0 + offset))))})
Candidates(sample_rate, bit_rate) ==
    { Max(_SYNC_MIN_WINDOW,
          Round(sample_rate * (100 * (_SYNC_TIMING_STEPS - 1) + TimingOffset(i)),
                bit_rate * 100 * (_SYNC_TIMING_STEPS - 1)))
      : i \in 0..(_SYNC_TIMING_STEPS - 1) }

\* range(start_min, start_max + 1, max(step, 1)) in _scan_for_preamble.
ScanStarts(start_min, start_max, step) ==
    IF start_min > start_max THEN {}
    ELSE {start \in start_min..start_max : (start - start_min) % Max(step, 1) = 0}

\* The start offsets _synchronize scores for one samples_per_bit value: the
\* coarse scan, and the refined scan around each coarse start.
ScoredStarts(size, samples_per_bit, preamble_len) ==
    LET max_start == size - samples_per_bit * preamble_len
        coarse == ScanStarts(0, max_start, Max(4, samples_per_bit \div 8))
    IN  IF max_start < 0 THEN {}
        ELSE coarse \cup
             UNION { ScanStarts(Max(0, c - samples_per_bit),
                                Min(max_start, c + samples_per_bit),
                                Max(1, samples_per_bit \div 32)) : c \in coarse }

_SymbolSyncResult(start_index, samples_per_bit, score) ==
    [start_index |-> start_index, samples_per_bit |-> samples_per_bit, score |-> score]

\* Scores the environment may produce, in hundredths.
ScoreChoices == {29, 30, 100}

\* Of the scored start offsets the model tries the first, the last and the
\* one where the tones begin.
StartChoices(wave, starts) ==
    {s \in starts : \/ s = wave.lead
                    \/ \A t \in starts : s <= t
                    \/ \A t \in starts : s >= t}

\* What _synchronize may return.  An empty preamble returns None at once;
\* silence scores nothing (_correlate returns None below an energy of 1e-6).
_synchronize(wave, sample_rate, bit_rate, preamble_bits) ==
    IF Len(preamble_bits) = 0 \/ wave.kind = "silence" THEN {None}
    ELSE {None} \cup
         UNION { { _SymbolSyncResult(start, spb, score) :
                     start \in StartChoices(wave, ScoredStarts(wave.size, spb,
                                                               Len(preamble_bits))),
                     score \in ScoreChoices }
                 : spb \in Candidates(sample_rate, bit_rate) }

\* The samples [first, last) of the waveform are all zero.
Silent(wave, first, last) ==
    wave.kind = "silence" \/ last <= wave.lead \/ first >= wave.size - wave.tail

\* The samples [first, last) of the waveform are exactly one tone.
ToneAt(wave, first, last) ==
    /\ wave.kind = "tones"
    /\ last - first = wave.spb
    /\ first >= wave.lead
    /\ (first - wave.lead) % wave.spb = 0
    /\ (first - wave.lead) \div wave.spb < Len(wave.symbols)

\* bits[idx] = 1 if diff >= 0.0 else 0
BitDecision(diff) == IF diff >= 0 THEN 1 ELSE 0

\* A variant that also reads the samples left over after the last whole
\* window as one more bit.
_demodulate_bits_with_remainder(wave, sync) ==
    LET samples_per_bit == sync.samples_per_bit
        total_bits ==
            (wave.size - sync.start_index + samples_per_bit - 1) \div samples_per_bit
    IN  IF samples_per_bit <= 0 \/ total_bits <= 0 THEN {<<>>}
        ELSE { [idx \in 1..total_bits |-> fill] : fill \in Bit }

\* What _demodulate_bits may return: total_bits windows from the start
\* offset on.  A window of zeros has diff = 0.0; a window that is one tone
\* is read as the bit of that tone; the bit of any other window is the
\* environment's (fill).
_demodulate_bits(wave, sync) ==
    LET samples_per_bit == sync.samples_per_bit
        total_bits == (wave.size - sync.start_index) \div samples_per_bit
        first(idx) == sync.start_index + (idx - 1) * samples_per_bit
        bit(idx, fill) ==
            IF Silent(wave, first(idx), first(idx) + samples_per_bit)
                THEN BitDecision(0)
            ELSE IF ToneAt(wave, first(idx), first(idx) + samples_per_bit)
                THEN wave.symbols[((first(idx) - wave.lead) \div wave.spb) + 1]
            ELSE fill
    IN  IF samples_per_bit <= 0 THEN {<<>>}
        ELSE IF total_bits <= 0 THEN {<<>>}
        ELSE { [idx \in 1..total_bits |-> bit(idx, fill)] : fill \in Bit }

(***************************************************************************)
(* The 32-bit length header is kept in two 16-bit halves, value            *)
(* hi * 65536 + lo, which a corrupted header can push past 2^31.           *)
(***************************************************************************)
Big(hi, lo) == [hi |-> hi, lo |-> lo]

\* int.from_bytes(np.packbits(header_bits).tobytes(), byteorder="big")
HeaderLength(header_bits) ==
    LET bytes == PackBits(header_bits)
    IN  Big(bytes[1] * 256 + bytes[2], bytes[3] * 256 + bytes[4])

\* n < big, for an n below 2^31.
LessThanBig(n, big) == big.hi >= 32768 \/ n < big.hi * 65536 + big.lo

\* big - n, for an n <= big.
BigMinus(big, n) ==
    LET n_hi == n \div 65536
        n_lo == n % 65536
        borrow == IF big.lo < n_lo THEN 1 ELSE 0
    IN  Big(big.hi - n_hi - borrow, (big.lo - n_lo) % 65536)

\* A decode call that raised.
RxRaised(error) == [error |-> error]

\* A variant that truncates without recording how much.
ParseFrameSilentTruncation(decoded_bits, fec_metrics) ==
    LET declared == HeaderLength(SubSeq(decoded_bits, 1, _HEADER_BITS))
        available == SubSeq(decoded_bits, _HEADER_BITS + 1, Len(decoded_bits))
        payload_bit_length ==
            IF LessThanBig(Len(available), declared) THEN Len(available)
            ELSE declared.hi * 65536 + declared.lo
    IN  [payload |-> _bits_to_bytes(SubSeq(available, 1, payload_bit_length)),
         payload_bit_length |-> payload_bit_length,
         fec_metrics |-> fec_metrics]

\* Lines 184-194 of decode: read the header, truncate to what is available.
ParseFrame(decoded_bits, fec_metrics) ==
    LET declared == HeaderLength(SubSeq(decoded_bits, 1, _HEADER_BITS))
        available == SubSeq(decoded_bits, _HEADER_BITS + 1, Len(decoded_bits))
        truncated == LessThanBig(Len(available), declared)
        payload_bit_length ==
            IF truncated THEN Len(available)
            ELSE declared.hi * 65536 + declared.lo
    IN  [payload |-> _bits_to_bytes(SubSeq(available, 1, payload_bit_length)),
         payload_bit_length |-> payload_bit_length,
         fec_metrics |->
            IF truncated
            THEN Update(fec_metrics,
                        [truncated_bits |-> BigMinus(declared, Len(available))])
            ELSE fec_metrics]

\* decode(waveform, params), given what synchronization and demodulation
\* produce when the call gets to them.
decode(waveform, config, sync, bit_array) ==
    LET sample_rate == config.sample_rate
        bit_rate == config.bitrate
        preamble_len == Len(config.preamble_bits)
        fec_settings == _parse_fec_settings(config.fec)
        codec == build_codec(fec_settings.config)
        first == [preamble_bits |-> preamble_len,
                  bitrate |-> bit_rate,
                  samples_per_bit |-> Round(sample_rate, bit_rate)]
        not_found(score) ==
            Update(first, [bit_count |-> 0, status |-> "preamble_not_found",
                           sync_score |-> score])
        synced == Update(first, [bit_count |-> Len(bit_array),
                                 samples_per_bit |-> sync.samples_per_bit,
                                 sync_score |-> sync.score,
                                 sync_start |-> sync.start_index])
        encoded_bits0 == SubSeq(bit_array, preamble_len + 1, Len(bit_array))
        encoded_bits ==
            IF fec_settings.interleave_depth > 1 /\ Len(encoded_bits0) > 0
            THEN _deinterleave_bits(encoded_bits0, fec_settings.interleave_depth)
            ELSE encoded_bits0
        decoded == Codec_decode(codec, encoded_bits)
        frame == ParseFrame(decoded.bits, decoded.metrics)
        return(bytes, metrics, locals) ==
            [error |-> "ok", payload |-> bytes, metrics |-> metrics, locals |-> locals]
    IN  IF codec.error # "ok" THEN RxRaised(codec.error)
        ELSE IF waveform.size = 0
        THEN return(<<>>, [bit_count |-> 0, preamble_bits |-> preamble_len], <<>>)
        \* sample_rate / bit_rate (lines 234 and 132), freq / sample_rate (line 404)
        ELSE IF bit_rate = 0 \/ (preamble_len > 0 /\ sample_rate = 0)
        THEN RxRaised("ZeroDivisionError")
        ELSE IF sync = None
        THEN return(<<>>, not_found(0), [sync |-> sync])
        ELSE IF sync.score < _SYNC_MIN_SCORE
        THEN return(<<>>, not_found(sync.score), [sync |-> sync])
        ELSE IF Len(bit_array) <= preamble_len
        THEN return(<<>>,
                    Update(synced, [status |-> "insufficient_data", data_bits |-> 0]),
                    [sync |-> sync, bit_array |-> bit_array])
        ELSE IF fec_settings.config.scheme = "none"
        THEN return(_bits_to_bytes(encoded_bits0),
                    Update(synced, [data_bits |-> Len(encoded_bits0), status |-> "ok"]),
                    [sync |-> sync, bit_array |-> bit_array])
        ELSE IF Len(decoded.bits) < _HEADER_BITS
        THEN return(<<>>,
                    Update(synced,
                           [fec |-> Update(decoded.metrics,
                                           [scheme |-> fec_settings.config.scheme,
                                            status |-> "header_not_recovered"]),
                            data_bits |-> 0,
                            status |-> "fec_failed"]),
                    [sync |-> sync, bit_array |-> bit_array,
                     decoded_bits |-> decoded.bits])
        ELSE return(frame.payload,
                    Update(synced,
                           [fec |-> Update(frame.fec_metrics,
                                           [scheme |-> fec_settings.config.scheme,
                                            interleave_depth |-> fec_settings.interleave_depth,
                                            payload_bits |-> frame.payload_bit_length,
                                            encoded_bits |-> Len(encoded_bits)]),
                            data_bits |-> frame.payload_bit_length,
                            status |-> "ok"]),
                    [sync |-> sync, bit_array |-> bit_array,
                     decoded_bits |-> decoded.bits])

\* A bit array with the bits at the given positions flipped.
FlipAt(word, positions) ==
    [k \in 1..Len(word) |-> IF k \in positions THEN 1 - word[k] ELSE word[k]]

(***************************************************************************)
(* Each specification below runs one part of the program; the variables of *)
(* the other parts stay as these predicates set them.                      *)
(***************************************************************************)
IlParked ==
    /\ il_pc = "off"
    /\ il_bits = <<>>
    /\ il_depth = 1
    /\ il_mid = <<>>
    /\ il_out = <<>>

FecParked ==
    /\ fec_pc = "off"
    /\ fec_config = [scheme |-> "none", repetition_factor |-> 3]
    /\ fec_data = <<>>
    /\ fec_word = <<>>
    /\ fec_flips = {}
    /\ fec_out = Absent

ModemParked ==
    /\ pc = "off"
    /\ params = Absent
    /\ payload = <<>>
    /\ tx = Absent
    /\ signal = Absent
    /\ rx = Absent

AgcParked ==
    /\ agc_pc = "off"
    /\ agc_scheme = "none"
    /\ agc_given = Absent
    /\ agc_heap = <<>>
    /\ agc_refs = <<>>

SyncParked ==
    /\ sync_pc = "off"
    /\ sync_in = Absent
    /\ sync_score = <<>>
    /\ sync_out = Absent

CcParked ==
    /\ cc_pc = <<>>
    /\ cc_call = <<>>
    /\ cc_defaults = Absent
    /\ cc_config = <<>>
    /\ cc_fec = <<>>
    /\ cc_result = <<>>

RecParked ==
    /\ rec_pc = Absent
    /\ rec_args = Absent
    /\ rec_limits = Absent
    /\ rec_loop = Absent
    /\ rec_calls = 0
    /\ rec_result = Absent

PlParked ==
    /\ pl_context = Absent
    /\ pl_state = Absent
    /\ pl_artifacts = Absent
    /\ pl_since = {}
    /\ pl_last = Absent

AuxParked == AgcParked /\ SyncParked /\ CcParked /\ RecParked /\ PlParked

(***************************************************************************)
(* The modem: encode a payload, pass the waveform through a channel,       *)
(* decode it with the same params.                                         *)
(***************************************************************************)
FecParams(scheme, repetition_factor, interleave_depth) ==
    [scheme |-> scheme, repetition_factor |-> repetition_factor,
     interleave_depth |-> interleave_depth]

Params(sample_rate, bitrate, preamble_bits, fec) ==
    [sample_rate |-> sample_rate, bitrate |-> bitrate,
     preamble_bits |-> preamble_bits, fec |-> fec]

SchemeNames == {"none", "repetition", "hamming74", "HAMMING74", "turbo"}
FactorsGiven == {-1, 0, 1, 2, 3}
DepthsGiven == {0, 1, 2, 3}
SampleRates == {-16, 0, 12, 16, 19}
BitRates == {-2, 0, 2}
Preambles == {<<>>, <<"1", "0">>, <<"1", "0", "1", "0", "1", "0", "1", "0">>}
PayloadBytes == {64, 165}

\* Every FEC setting at one rate and preamble; every rate and every
\* preamble with an un-coded and a coded setting.
ParamChoices ==
    { Params(16, 2, <<"1", "0">>, FecParams(s, f, d)) :
        s \in SchemeNames, f \in FactorsGiven, d \in DepthsGiven }
    \cup
    { Params(sr, br, p, fec) :
        sr \in SampleRates, br \in BitRates, p \in Preambles,
        fec \in {FecParams("none", 3, 1), FecParams("hamming74", 3, 2)} }

Payloads == UNION {[1..n -> PayloadBytes] : n \in 0..MaxPayload}

ModemInit ==
    /\ pc = "idle"
    /\ params \in ParamChoices
    /\ Lower(params.fec.scheme) # "repetition" => params.fec.repetition_factor = 3
    /\ params.fec.scheme \in {"HAMMING74", "turbo"} => params.fec.interleave_depth = 1
    /\ params.sample_rate <= 0 \/ params.bitrate <= 0 => params.preamble_bits = <<"1", "0">>
    /\ payload \in Payloads
    /\ tx = Absent
    /\ signal = Absent
    /\ rx = Absent

Encode ==
    /\ pc = "idle"
    /\ tx' = encode(payload, params)
    /\ pc' = IF tx'.error = "ok" THEN "encoded" ELSE "failed"
    /\ UNCHANGED <<params, payload, signal, rx, ilVars, fecVars, auxVars>>

\* The waveform reaches decode as encode made it.
ChannelIdeal ==
    /\ pc = "encoded"
    /\ tx.waveform.kind # "nan"
    /\ signal' = tx.waveform
    /\ pc' = "received"
    /\ UNCHANGED <<params, payload, tx, rx, ilVars, fecVars, auxVars>>

\* The samples a recording cut short keeps: none, one less than the
\* preamble takes, or all but the last few symbols.
CutSizes(wave, preamble_len) ==
    {n \in {0, preamble_len * wave.spb - 1} \cup
           {wave.size - k * wave.spb : k \in {1, 7}} : n >= 0 /\ n < wave.size}

Cut(wave, n) ==
    IF n = 0 THEN EmptyWaveform
    ELSE [wave EXCEPT !.size = n,
                      !.symbols = SubSeq(wave.symbols, 1, Min(Len(wave.symbols), n \div wave.spb))]

ChannelCut ==
    /\ pc = "encoded"
    /\ tx.waveform.kind # "nan"
    /\ \E n \in CutSizes(tx.waveform, Len(params.preamble_bits)) :
          signal' = Cut(tx.waveform, n)
    /\ pc' = "received"
    /\ UNCHANGED <<params, payload, tx, rx, ilVars, fecVars, auxVars>>

\* Silence recorded before and after the waveform, in samples.
LeadChoices == {0, 8}
TailSymbols == {0, 1, 7}

ChannelPad ==
    /\ pc = "encoded"
    /\ tx.waveform.kind # "nan"
    /\ \E lead \in LeadChoices, tail \in TailSymbols :
          /\ lead + tail > 0
          /\ signal' = [tx.waveform EXCEPT
                          !.size = @ + lead + tail * tx.waveform.spb,
                          !.lead = lead,
                          !.tail = tail * tx.waveform.spb]
    /\ pc' = "received"
    /\ UNCHANGED <<params, payload, tx, rx, ilVars, fecVars, auxVars>>

\* Noise turns one tone into the other: the first bit after the preamble,
\* or bit 28 or bit 31 after it.
FlipChoices(preamble_len) == {preamble_len + 1, preamble_len + 29, preamble_len + 32}

ChannelFlip ==
    /\ pc = "encoded"
    /\ tx.waveform.kind = "tones"
    /\ \E k \in FlipChoices(Len(params.preamble_bits)) :
          /\ k <= Len(tx.waveform.symbols)
          /\ signal' = [tx.waveform EXCEPT !.symbols = FlipAt(@, {k})]
    /\ pc' = "received"
    /\ UNCHANGED <<params, payload, tx, rx, ilVars, fecVars, auxVars>>

\* Nothing but silence is recorded, whether or not encode succeeded.
SilenceSizes == {1, 15, 16, 640}

ChannelSilence ==
    /\ pc \in {"encoded", "failed"}
    /\ \E n \in SilenceSizes \cup {0} :
          signal' = IF n = 0 THEN EmptyWaveform
                    ELSE Waveform("silence", n, 0, 0, 1, <<>>)
    /\ pc' = "received"
    /\ UNCHANGED <<params, payload, tx, rx, ilVars, fecVars, auxVars>>

\* A capture of some other transmitter is decoded.
ForeignWaveform == Waveform("tones", 48, 0, 0, 8, <<1, 0, 1, 1, 0, 1>>)

ChannelForeign ==
    /\ pc \in {"encoded", "failed"}
    /\ signal' = ForeignWaveform
    /\ pc' = "received"
    /\ UNCHANGED <<params, payload, tx, rx, ilVars, fecVars, auxVars>>

\* decode gets as far as a sync result: the codec was built, the waveform
\* is not empty, and no division by a zero rate ended the call.
ReachesSynchronize(waveform, config) ==
    /\ build_codec(_parse_fec_settings(config.fec).config).error = "ok"
    /\ waveform.size # 0
    /\ config.bitrate # 0
    /\ ~(Len(config.preamble_bits) > 0 /\ config.sample_rate = 0)

\* decode on the received waveform: AGC on a private copy, synchronization,
\* demodulation, frame parsing.
Decode ==
    /\ pc = "received"
    /\ LET conditioned == _apply_agc(signal) IN
       \E sync \in (IF ReachesSynchronize(signal, params)
                    THEN _synchronize(conditioned, params.sample_rate, params.bitrate,
                                      params.preamble_bits)
                    ELSE {None}) :
       \E bit_array \in (IF sync = None THEN {<<>>}
                         ELSE _demodulate_bits(conditioned, sync)) :
          rx' = decode(signal, params, sync, bit_array)
    /\ pc' = "decoded"
    /\ UNCHANGED <<params, payload, tx, signal, ilVars, fecVars, auxVars>>

Init == ModemInit /\ IlParked /\ FecParked /\ AuxParked
Next ==
    \/ Encode
    \/ ChannelIdeal \/ ChannelCut \/ ChannelPad \/ ChannelFlip
    \/ ChannelSilence \/ ChannelForeign
    \/ Decode
Spec == Init /\ [][Next]_vars

(***************************************************************************)
(* Properties of the modem, over Spec.                                     *)
(***************************************************************************)
Called == pc # "idle"
Decoded == pc = "decoded"
Returned == Decoded /\ rx.error = "ok"

SupportedSchemes == {"none", "repetition", "hamming74"}

\* The FEC settings the caller supplied are ones the program documents.
ValidFec ==
    /\ Lower(params.fec.scheme) \in SupportedSchemes
    /\ Lower(params.fec.scheme) = "repetition"
          => params.fec.repetition_factor >= 1 /\ params.fec.repetition_factor % 2 = 1
    /\ params.fec.interleave_depth >= 1

ValidRates == params.sample_rate > 0 /\ params.bitrate > 0

\* The channel was ideal: the waveform decode got is the one encode made,
\* and demodulation read every transmitted bit as it was sent.
IdealRoundTrip ==
    /\ Returned
    /\ tx.error = "ok"
    /\ signal = tx.waveform
    /\ Has(rx.locals, "bit_array")
    /\ rx.locals.bit_array = tx.bit_stream

\* C1: on an ideal channel, with a valid configuration of any scheme and
\* any interleave depth >= 1, decode returns the payload that was encoded
\* and the status "ok".
C1_RoundTrip ==
    ValidFec /\ ValidRates /\ IdealRoundTrip
        => /\ rx.payload = payload
           /\ Has(rx.metrics, "status")
           /\ rx.metrics.status = "ok"

\* The received waveform has fewer samples than one preamble takes at the
\* nominal sample_rate / bitrate samples per bit.
ShorterThanPreamble ==
    signal.size * params.bitrate < Len(params.preamble_bits) * params.sample_rate

\* C6: under a valid configuration decode of silence, of a waveform shorter
\* than the preamble or of an empty waveform returns, with an empty payload
\* and a status that is present and not "ok"; and bits are demodulated only
\* after a sync result with a score of at least the threshold.
C6_FailureSignalling ==
    Decoded /\ ValidFec /\ ValidRates
        => /\ signal.kind = "silence" \/ signal.size = 0 \/ ShorterThanPreamble
                => /\ rx.error = "ok"
                   /\ rx.payload = <<>>
                   /\ Has(rx.metrics, "status")
                   /\ rx.metrics.status # "ok"
           /\ rx.error = "ok" /\ Has(rx.locals, "bit_array")
                => /\ rx.locals.sync # None
                   /\ rx.locals.sync.score >= _SYNC_MIN_SCORE

StatusValues ==
    {"ok", "preamble_not_found", "insufficient_data", "header_not_recovered",
     "fec_failed"}

\* C7: whatever decode returns has a status among the five documented
\* values, and an empty payload unless the status is "ok".
C7_StatusInvariant ==
    Returned
        => /\ Has(rx.metrics, "status")
           /\ rx.metrics.status \in StatusValues
           /\ rx.metrics.status # "ok" => rx.payload = <<>>

\* C8: with a scheme name other than none / repetition / hamming74, or with
\* scheme repetition and a supplied factor that is not odd and >= 1, encode
\* raises, and so does decode.
C8_FecConfigErrors ==
    LET invalid ==
            \/ Lower(params.fec.scheme) \notin SupportedSchemes
            \/ /\ Lower(params.fec.scheme) = "repetition"
               /\ ~(params.fec.repetition_factor >= 1
                    /\ params.fec.repetition_factor % 2 = 1)
    IN  /\ Called /\ invalid => tx.error # "ok"
        /\ Decoded /\ invalid => rx.error # "ok"

\* C9: with a sample rate or a bit rate that is zero or negative, encode
\* raises, and so does decode.
C9_RateConfigErrors ==
    /\ Called /\ ~ValidRates => tx.error # "ok"
    /\ Decoded /\ ~ValidRates => rx.error # "ok"

\* The value of a bit sequence read as a big-endian number.
BitsValue(bits) ==
    SumSeq([i \in 1..Len(bits) |-> bits[i] * (2 ^ (Len(bits) - i))])

BigOf(n) == Big(n \div 65536, n % 65536)

BigLess(a, b) == a.hi < b.hi \/ (a.hi = b.hi /\ a.lo < b.lo)

BigAdd(a, b) ==
    Big(a.hi + b.hi + ((a.lo + b.lo) \div 65536), (a.lo + b.lo) % 65536)

\* bytes are the bits, eight to a byte, most significant first, the last
\* byte filled with zeros.
PackedFrom(bytes, bits) ==
    /\ Len(bytes) = (Len(bits) + 7) \div 8
    /\ \A b \in 1..Len(bytes) : \A i \in 1..8 :
          (bytes[b] \div (2 ^ (8 - i))) % 2 =
              (IF (b - 1) * 8 + i <= Len(bits) THEN bits[(b - 1) * 8 + i] ELSE 0)

\* decode read a length header: FEC is on and at least 32 bits were decoded.
HeaderRead ==
    /\ Returned
    /\ Has(rx.locals, "decoded_bits")
    /\ Len(rx.locals.decoded_bits) >= _HEADER_BITS

\* C10: with FEC on and at least 32 decoded bits, L the header value and A
\* the number of decoded bits after the header: if A < L the payload is the
\* A bits packed, truncated_bits = L - A, data_bits = A and the status is
\* "ok"; if A >= L the payload is the first L bits packed, data_bits = L
\* and truncated_bits is not reported.
C10_PartialRecovery ==
    HeaderRead =>
        LET decoded_bits == rx.locals.decoded_bits
            L == Big(BitsValue(SubSeq(decoded_bits, 1, 16)),
                     BitsValue(SubSeq(decoded_bits, 17, 32)))
            A == Len(decoded_bits) - 32
            after == [k \in 1..A |-> decoded_bits[32 + k]]
        IN  IF BigLess(BigOf(A), L)
            THEN /\ PackedFrom(rx.payload, after)
                 /\ Has(rx.metrics.fec, "truncated_bits")
                 /\ BigAdd(rx.metrics.fec.truncated_bits, BigOf(A)) = L
                 /\ rx.metrics.data_bits = A
                 /\ rx.metrics.status = "ok"
            ELSE /\ PackedFrom(rx.payload, SubSeq(after, 1, L.hi * 65536 + L.lo))
                 /\ rx.metrics.data_bits = L.hi * 65536 + L.lo
                 /\ ~Has(rx.metrics.fec, "truncated_bits")
                 /\ rx.metrics.status = "ok"

\* A decode that recovered part of a payload: fewer bits after the header
\* than it declares, and some of them returned.
C10_Witness ==
    /\ HeaderRead
    /\ Has(rx.metrics.fec, "truncated_bits")
    /\ rx.payload # <<>>

\* A decode with more bits after the header than it declares.
C10_WitnessSurplus ==
    /\ HeaderRead
    /\ ~Has(rx.metrics.fec, "truncated_bits")
    /\ rx.metrics.data_bits > 0
    /\ Len(rx.locals.decoded_bits) - 32 > rx.metrics.data_bits

\* decode ran the codec and got fewer bits than a length header has.
HeaderShort ==
    /\ Returned
    /\ Has(rx.locals, "decoded_bits")
    /\ Len(rx.locals.decoded_bits) < _HEADER_BITS

\* C11: with FEC on and synchronization done, fewer than 32 decoded bits
\* give an empty payload, data_bits 0 and the top-level status
\* "header_not_recovered".
C11_HeaderNotRecovered ==
    HeaderShort
        => /\ rx.payload = <<>>
           /\ rx.metrics.data_bits = 0
           /\ rx.metrics.status = "header_not_recovered"

Encoded == Called /\ tx.error = "ok"

\* The codec and the interleave depth of the call, and the frame bits:
\* the payload bits, after a 32-bit length header unless FEC is "none".
TxCodec == build_codec(_parse_fec_settings(params.fec).config)

TxDepth == _parse_fec_settings(params.fec).interleave_depth

TxFrameBits ==
    IF Lower(params.fec.scheme) = "none" THEN UnpackBits(payload)
    ELSE _length_header(8 * Len(payload)) \o UnpackBits(payload)

\* The bit stream after the preamble.
TxEncodedPart ==
    SubSeq(tx.bit_stream, Len(params.preamble_bits) + 1, Len(tx.bit_stream))

\* C15, as claimed: the bit stream is the preamble followed by the FEC
\* encoding of the interleaved frame bits.
C15_InterleaveBeforeFec ==
    Encoded
        => tx.bit_stream =
              _preamble_array(params.preamble_bits)
              \o Codec_encode(TxCodec, _interleave_bits(TxFrameBits, TxDepth))

\* C15, amended: the bit stream is the preamble followed by the interleaved
\* FEC encoding of the frame bits; de-interleaved, the part after the
\* preamble is the FEC encoding of the frame bits.
C15_FecBeforeInterleave ==
    Encoded
        => /\ SubSeq(tx.bit_stream, 1, Len(params.preamble_bits))
                = _preamble_array(params.preamble_bits)
           /\ _deinterleave_bits(TxEncodedPart, TxDepth)
                = Codec_encode(TxCodec, TxFrameBits)
           /\ TxEncodedPart
                = _interleave_bits(Codec_encode(TxCodec, TxFrameBits), TxDepth)

\* An encode call whose interleaver moved bits of a FEC encoding.
C15_Witness ==
    /\ Encoded
    /\ TxCodec.kind \in {"repetition", "hamming74"}
    /\ TxDepth > 1
    /\ payload # <<>>
    /\ TxEncodedPart # Codec_encode(TxCodec, TxFrameBits)

\* max(1, round(sample_rate / bit_rate))
NominalSamplesPerBit == Max(1, Round(params.sample_rate, params.bitrate))

\* C16: with positive rates encode emits max(1, round(sample_rate /
\* bit_rate)) samples for each bit of the stream, the waveform has
\* bit_count times as many samples, and a decode that found no preamble
\* reports the same nominal value.
C16_SamplesPerBit ==
    ValidRates
        => /\ Encoded
                => /\ tx.samples_per_bit = NominalSamplesPerBit
                   /\ tx.waveform.size = tx.metadata.bit_count * NominalSamplesPerBit
           /\ Encoded /\ Returned /\ Has(rx.metrics, "status")
                => (rx.metrics.status = "preamble_not_found"
                        => rx.metrics.samples_per_bit = tx.samples_per_bit)

\* decode got as far as demodulating bits.
Demodulated == Returned /\ Has(rx.locals, "bit_array")

\* The first sample of the idx-th symbol window of the demodulation.
WindowFirst(idx) ==
    rx.locals.sync.start_index + (idx - 1) * rx.locals.sync.samples_per_bit

\* The idx-th symbol window holds nothing but zeros: both magnitudes are 0.
WindowSilent(idx) ==
    Silent(signal, WindowFirst(idx), WindowFirst(idx) + rx.locals.sync.samples_per_bit)

\* C22: a symbol window whose two correlation magnitudes are equal, as in a
\* window of silence, is decoded as bit 0.
C22_TieReadsZero ==
    Demodulated
        => \A idx \in 1..Len(rx.locals.bit_array) :
              WindowSilent(idx) => rx.locals.bit_array[idx] = 0

\* decode ran without FEC and synchronization succeeded.
UncodedSynced ==
    /\ Demodulated
    /\ _parse_fec_settings(params.fec).config.scheme = "none"

DataBits ==
    SubSeq(rx.locals.bit_array, Len(params.preamble_bits) + 1, Len(rx.locals.bit_array))

\* C23: without FEC, synchronized at start s with p samples per bit on N
\* samples, decode demodulates floor((N - s) / p) bits, each from a window
\* that ends within the buffer; with no bit after the preamble the status is
\* "insufficient_data", and otherwise the payload is every bit after the
\* preamble packed MSB-first and data_bits = bit_count - len(preamble).
C23_UncodedToBufferEnd ==
    UncodedSynced
        => LET sync == rx.locals.sync
               bit_count == Len(rx.locals.bit_array)
               preamble_len == Len(params.preamble_bits)
           IN  /\ bit_count = (signal.size - sync.start_index) \div sync.samples_per_bit
               /\ rx.metrics.bit_count = bit_count
               /\ \A idx \in 1..bit_count :
                     WindowFirst(idx) + sync.samples_per_bit <= signal.size
               /\ IF bit_count <= preamble_len
                  THEN /\ rx.metrics.status = "insufficient_data"
                       /\ rx.payload = <<>>
                  ELSE /\ rx.metrics.status = "ok"
                       /\ rx.metrics.data_bits = bit_count - preamble_len
                       /\ PackedFrom(rx.payload, DataBits)

\* Bits after the preamble that do not fill a byte were returned, from a
\* buffer that ends part of the way through a symbol window.
C23_Witness ==
    /\ UncodedSynced
    /\ rx.metrics.status = "ok"
    /\ Len(DataBits) % 8 # 0
    /\ (signal.size - rx.locals.sync.start_index) % rx.locals.sync.samples_per_bit # 0

\* Nothing follows the preamble.
C23_WitnessNoData ==
    /\ UncodedSynced
    /\ rx.metrics.status = "insufficient_data"

\* encode interleaved the bits it placed after the preamble.
EncodeInterleaved == TxDepth > 1 /\ Len(TxEncodedPart) > 0

\* C26: for every scheme, decode de-interleaves the bits after the preamble
\* with the configured depth exactly when encode interleaved them: what
\* decode hands on (to the codec, or as the payload when the scheme is
\* 'none') is the de-interleaved bits if encode interleaved, and the bits
\* as demodulated if not.
C26_InterleaveSymmetric ==
    (Encoded /\ Demodulated /\ Len(DataBits) > 0)
        => LET handed_on == IF EncodeInterleaved
                            THEN _deinterleave_bits(DataBits, TxDepth)
                            ELSE DataBits
           IN  IF TxCodec.kind = "noop"
               THEN PackedFrom(rx.payload, handed_on)
               ELSE rx.locals.decoded_bits = Codec_decode(TxCodec, handed_on).bits

\* C27: with sample_rate > 0 and bit_rate > 0, the samples per bit encode
\* modulates with is one of the candidates the synchronizer of decode tries
\* for the same rates.
C27_TransmitTimingSearched ==
    (Encoded /\ params.sample_rate > 0 /\ params.bitrate > 0)
        => tx.samples_per_bit \in Candidates(params.sample_rate, params.bitrate)

(***************************************************************************)
(* Harness: interleave a bit array, then de-interleave the result.         *)
(***************************************************************************)
IlInit ==
    /\ il_pc = "start"
    /\ il_bits \in BitSeqs(MaxBits)
    /\ il_depth \in 0..MaxDepth
    /\ il_mid = <<>>
    /\ il_out = <<>>

Interleave ==
    /\ il_pc = "start"
    /\ il_mid' = _interleave_bits(il_bits, il_depth)
    /\ il_pc' = "interleaved"
    /\ UNCHANGED <<il_bits, il_depth, il_out, fecVars, modemVars, auxVars>>

Deinterleave ==
    /\ il_pc = "interleaved"
    /\ il_out' = _deinterleave_bits(il_mid, il_depth)
    /\ il_pc' = "restored"
    /\ UNCHANGED <<il_bits, il_depth, il_mid, fecVars, modemVars, auxVars>>

InitInterleave == IlInit /\ FecParked /\ ModemParked /\ AuxParked
NextInterleave == Interleave \/ Deinterleave
SpecInterleave == InitInterleave /\ [][NextInterleave]_vars

(***************************************************************************)
(* C2: for every bit array x and every depth d >= 1,                       *)
(* _deinterleave_bits(_interleave_bits(x, d), d) is x, element for         *)
(* element; for d <= 1 or empty x both operations return their input.      *)
(***************************************************************************)
C2_InterleaveInverse ==
    /\ il_pc = "restored" => il_out = il_bits
    /\ (il_pc \in {"interleaved", "restored"} /\ (il_depth <= 1 \/ il_bits = <<>>))
          => il_mid = il_bits
    /\ (il_pc = "restored" /\ (il_depth <= 1 \/ il_mid = <<>>))
          => il_out = il_mid

\* A length not divisible by the depth, really permuted, and restored.
C2_Witness ==
    /\ il_pc = "restored"
    /\ il_depth >= 2
    /\ Len(il_bits) % il_depth # 0
    /\ il_mid # il_bits
    /\ il_out = il_bits

(***************************************************************************)
(* Harness: build a codec, encode data bits, let the channel flip bits     *)
(* and append stray bits (or hand decode an arbitrary array), then decode. *)
(***************************************************************************)
FecSchemes == {"none", "repetition", "hamming74", "turbo"}
FecFactors == {-1, 0, 1, 2, 3, 5}

\* Bits that follow the encoded array on the wire.
StrayBits == {<<>>, <<0>>, <<1>>, <<1, 0>>}

\* A repetition group of five outvotes two flips; the other codecs are
\* given one flip fewer.
FlipBudget(codec) == IF codec.kind = "repetition" THEN MaxFlips ELSE MaxFlips - 1

DataBound(scheme) == IF Lower(scheme) = "hamming74" THEN MaxData ELSE MaxRepData

FecInit ==
    /\ fec_pc = "new"
    /\ fec_config \in {FECConfig(s, f) : s \in FecSchemes, f \in FecFactors}
    /\ Lower(fec_config.scheme) # "repetition" => fec_config.repetition_factor = 3
    /\ fec_data \in BitSeqs(MaxData)
    /\ Len(fec_data) <= DataBound(fec_config.scheme)
    /\ fec_word = <<>>
    /\ fec_flips = {}
    /\ fec_out = Absent

FecCodec == build_codec(fec_config)

FecEncoded == Codec_encode(FecCodec, fec_data)

FecBuild ==
    /\ fec_pc = "new"
    /\ fec_pc' = IF FecCodec.error = "ok" THEN "built" ELSE "raised"
    /\ UNCHANGED <<fec_config, fec_data, fec_word, fec_flips, fec_out, ilVars, modemVars, auxVars>>

FecEncode ==
    /\ fec_pc = "built"
    /\ fec_word' = FecEncoded
    /\ fec_pc' = "wire"
    /\ UNCHANGED <<fec_config, fec_data, fec_flips, fec_out, ilVars, modemVars, auxVars>>

FecFlip ==
    /\ fec_pc = "wire"
    /\ Len(fec_word) = Len(FecEncoded)
    /\ Cardinality(fec_flips) < FlipBudget(FecCodec)
    /\ \E k \in 1..Len(fec_word) :
          /\ k \notin fec_flips
          /\ fec_flips' = fec_flips \cup {k}
          /\ fec_word' = FlipAt(fec_word, {k})
    /\ UNCHANGED <<fec_pc, fec_config, fec_data, fec_out, ilVars, modemVars, auxVars>>

FecAppend ==
    /\ fec_pc = "wire"
    /\ Len(fec_word) = Len(FecEncoded)
    /\ \E tail \in StrayBits \ {<<>>} : fec_word' = fec_word \o tail
    /\ UNCHANGED <<fec_pc, fec_config, fec_data, fec_flips, fec_out, ilVars, modemVars, auxVars>>

FecInject ==
    /\ fec_pc = "built"
    /\ fec_data = <<>>
    /\ \E w \in BitSeqs(MaxWord) : fec_word' = w
    /\ fec_pc' = "raw"
    /\ UNCHANGED <<fec_config, fec_data, fec_flips, fec_out, ilVars, modemVars, auxVars>>

FecDecode ==
    /\ fec_pc \in {"wire", "raw"}
    /\ fec_out' = Codec_decode(FecCodec, fec_word)
    /\ fec_pc' = "done"
    /\ UNCHANGED <<fec_config, fec_data, fec_word, fec_flips, ilVars, modemVars, auxVars>>

InitFec == FecInit /\ IlParked /\ ModemParked /\ AuxParked
NextFec == FecBuild \/ FecEncode \/ FecFlip \/ FecAppend \/ FecInject \/ FecDecode
SpecFec == InitFec /\ [][NextFec]_vars

\* The array on the wire is the encoding with exactly the recorded flips.
FecFlippedOnly == fec_word = FlipAt(FecEncoded, fec_flips)

\* The array on the wire starts with the encoding with the recorded flips.
FecFlippedPrefix ==
    /\ Len(fec_word) >= Len(FecEncoded)
    /\ SubSeq(fec_word, 1, Len(FecEncoded)) = FlipAt(FecEncoded, fec_flips)

FlipsIn(first, last) == Cardinality({k \in fec_flips : k >= first /\ k <= last})

(***************************************************************************)
(* C3: Hamming(7,4): with one bit of one code word of the encoding         *)
(* flipped, decode returns the data bits followed by the zero padding,     *)
(* corrected_bits = 1 and uncorrectable_blocks = 0; with no bit flipped it *)
(* returns the same with corrected_bits = 0.                               *)
(***************************************************************************)
C3_HammingSingleError ==
    (fec_pc = "done" /\ FecCodec.kind = "hamming74" /\ FecFlippedOnly
        /\ Cardinality(fec_flips) <= 1)
    => /\ fec_out.bits = fec_data \o Zeros((-Len(fec_data)) % 4)
       /\ fec_out.metrics.corrected_bits = Cardinality(fec_flips)
       /\ fec_out.metrics.uncorrectable_blocks = 0

\* One flipped bit in the second code word of a padded two-word encoding.
C3_Witness ==
    /\ fec_pc = "done"
    /\ FecCodec.kind = "hamming74"
    /\ FecFlippedOnly
    /\ Len(fec_data) = 5
    /\ \E k \in 8..14 : fec_flips = {k}
    /\ fec_out.metrics.corrected_bits = 1
    /\ fec_out.bits = fec_data \o <<0, 0, 0>>

(***************************************************************************)
(* C4: repetition with an odd factor >= 3: with at most factor \div 2      *)
(* flipped bits in each group, decode returns the data bits; trailing bits *)
(* short of a complete group are dropped and counted in discarded_symbols. *)
(***************************************************************************)
C4_RepetitionMajority ==
    (fec_pc = "done" /\ FecCodec.kind = "repetition")
    => LET factor == FecCodec.factor
           tail == Len(fec_word) % factor
       IN  /\ (/\ factor >= 3
               /\ FecFlippedPrefix
               /\ Len(fec_word) - Len(FecEncoded) < factor
               /\ \A g \in 1..Len(fec_data) :
                     FlipsIn((g - 1) * factor + 1, g * factor) <= factor \div 2)
              => fec_out.bits = fec_data
           /\ tail > 0
              => /\ Len(fec_out.bits) = Len(fec_word) \div factor
                 /\ Has(fec_out.metrics, "discarded_symbols")
                 /\ fec_out.metrics.discarded_symbols = tail

\* Two flipped replicas in one group of five, and a stray trailing bit.
C4_Witness ==
    /\ fec_pc = "done"
    /\ FecCodec.kind = "repetition"
    /\ FecCodec.factor = 5
    /\ FecFlippedPrefix
    /\ Len(fec_data) = 2
    /\ Cardinality(fec_flips) = 2
    /\ fec_flips \subseteq 6..10
    /\ Len(fec_word) = 11
    /\ fec_out.bits = fec_data
    /\ fec_out.metrics.discarded_symbols = 1

(***************************************************************************)
(* C5: the corrected_bits that repetition decode returns is the number of  *)
(* bits in complete groups that differ from their group's majority value,  *)
(* whether that value is 0 or 1.                                           *)
(***************************************************************************)
BitsOffMajority(factor, bits) ==
    LET groups == Len(bits) \div factor
        row(g) == SubSeq(bits, (g - 1) * factor + 1, g * factor)
        ones(g) == SumSeq(row(g))
    IN  SumSeq([g \in 1..groups |->
                   IF 2 * ones(g) > factor THEN factor - ones(g) ELSE ones(g)])

C5_CorrectedBitsCount ==
    (fec_pc = "done" /\ FecCodec.kind = "repetition")
    => fec_out.metrics.corrected_bits = BitsOffMajority(FecCodec.factor, fec_word)

\* C14: decode of every codec, on every bit array (the empty one and
\* those shorter than one block among them), returns bits and metrics;
\* the pass-through codec returns its input with corrected_bits 0 and
\* uncorrectable_blocks 0.
C14_DecodeNeverRaises ==
    fec_pc = "done"
        => /\ fec_out.error = "ok"
           /\ Has(fec_out, "bits") /\ Has(fec_out, "metrics")
           /\ FecCodec.kind = "noop"
                => /\ fec_out.bits = fec_word
                   /\ fec_out.metrics.corrected_bits = 0
                   /\ fec_out.metrics.uncorrectable_blocks = 0

\* decode returned on an array that is not empty and shorter than one block.
C14_Witness ==
    /\ fec_pc = "done"
    /\ fec_word # <<>>
    /\ \/ FecCodec.kind = "hamming74" /\ Len(fec_word) < 7
       \/ FecCodec.kind = "repetition" /\ Len(fec_word) < FecCodec.factor
    /\ fec_out.error = "ok"
    /\ fec_out.metrics.discarded_symbols = Len(fec_word)

\* The b-th complete 7-bit block of the array given to decode.
WireBlock(b) == SubSeq(fec_word, (b - 1) * 7 + 1, b * 7)

WireBlocks == 1..(Len(fec_word) \div 7)

\* The block fails a parity check: it is not the encoding of any 4 bits.
OffCode(block) ==
    \A data \in [1..4 -> Bit] : _Hamming74Codec_encode(data) # block

\* C24: every complete block has a syndrome in 0..7; Hamming decode reports
\* uncorrectable_blocks = 0, corrected_bits = the complete blocks with a
\* non-zero syndrome, discarded_symbols = the input length modulo 7, and
\* returns 4 bits per complete block, those at positions 2, 4, 5, 6 of
\* the block after the bit its syndrome names was flipped.
C24_SyndromeRange ==
    (fec_pc = "done" /\ FecCodec.kind = "hamming74")
    => /\ \A b \in WireBlocks :
             /\ SyndromeIndex(WireBlock(b)) \in 0..7
             /\ SyndromeIndex(WireBlock(b)) # 0 <=> OffCode(WireBlock(b))
       /\ fec_out.metrics.uncorrectable_blocks = 0
       /\ fec_out.metrics.corrected_bits =
              Cardinality({b \in WireBlocks : OffCode(WireBlock(b))})
       /\ fec_out.metrics.discarded_symbols = Len(fec_word) % 7
       /\ Len(fec_out.bits) = 4 * (Len(fec_word) \div 7)
       /\ \A b \in WireBlocks : \A k \in 1..4 :
             LET position == DataPositions[k] + 1
                 flipped == SyndromeIndex(WireBlock(b))
             IN  fec_out.bits[(b - 1) * 4 + k] =
                     IF position = flipped THEN 1 - WireBlock(b)[position]
                     ELSE WireBlock(b)[position]

\* An arbitrary array of one complete block that fails a parity check and
\* one bit more was decoded.
C24_Witness ==
    /\ fec_pc = "done"
    /\ FecCodec.kind = "hamming74"
    /\ fec_data = <<>>
    /\ Len(fec_word) = 8
    /\ OffCode(WireBlock(1))
    /\ fec_out.metrics.corrected_bits = 1
    /\ fec_out.metrics.discarded_symbols = 1

(***************************************************************************)
(* The sample buffers of one decode call (lines 112-126 of decode, and     *)
(* _apply_agc).  A buffer is kept as its element type, whether it holds    *)
(* any sample, and the rms level of its samples in hundredths; the heap    *)
(* maps the name of each buffer that exists to its content, and a local    *)
(* variable of decode is bound to a buffer name.                           *)
(***************************************************************************)
_AGC_TARGET_RMS == 40        \* 0.4, in hundredths
_AGC_MAX_GAIN == 20

Buffer(dtype, size, level) == [dtype |-> dtype, size |-> size, level |-> level]

\* What a caller may pass: a float32 array, a float64 array, a list.
BufferTypes == {"float32", "float64", "list"}

\* rms levels of a capture, in hundredths; 0 is a buffer of zeros.
Levels == {0, 1, 2, 3, 10, 40, 100, 780, 800, 1000, 2000}

\* np.asarray(waveform, dtype=np.float32): the array itself when it is a
\* float32 array already, a converted array otherwise.
np_asarray(heap, ref) ==
    IF heap[ref].dtype = "float32"
    THEN [heap |-> heap, ref |-> ref]
    ELSE [heap |-> [asarray |-> [heap[ref] EXCEPT !.dtype = "float32"]] @@ heap,
          ref |-> "asarray"]

\* A call that hands over the array itself, not a copy of it.
np_alias(heap, ref) == [heap |-> heap, ref |-> ref]

\* signal.copy(): a new array with the same samples.
np_copy(heap, ref) == [heap |-> [copy |-> heap[ref]] @@ heap, ref |-> "copy"]

\* The level after "signal *= gain": gain = clip(target / rms, 1 / max_gain,
\* max_gain).  rms is sqrt(mean + 1e-12), never below 1e-9, so every buffer
\* is scaled; zeros stay zeros.
ScaledLevel(level) ==
    IF level = 0 THEN 0
    ELSE IF _AGC_TARGET_RMS >= _AGC_MAX_GAIN * level THEN level * _AGC_MAX_GAIN
    ELSE IF _AGC_TARGET_RMS * _AGC_MAX_GAIN <= level THEN level \div _AGC_MAX_GAIN
    ELSE _AGC_TARGET_RMS

\* _apply_agc on the buffer bound to its argument: scales it in place.
ApplyAgcInPlace(heap, ref) ==
    [heap EXCEPT ![ref].level = ScaledLevel(@)]

AgcInit ==
    /\ agc_pc = "called"
    /\ agc_scheme \in {"none", "hamming74", "turbo"}
    /\ \E dtype \in BufferTypes, size \in {0, 1}, level \in Levels :
          /\ size = 0 => level = 0
          /\ agc_given = Buffer(dtype, size, level)
    /\ agc_heap = [waveform |-> agc_given]
    /\ agc_refs = [waveform |-> "waveform"]

\* lines 112-120: the config is read and the codec built, or the call raises.
AgcBuildCodec ==
    /\ agc_pc = "called"
    /\ agc_pc' = IF build_codec(FECConfig(agc_scheme, 3)).error = "ok"
                 THEN "built" ELSE "raised"
    /\ UNCHANGED <<agc_scheme, agc_given, agc_heap, agc_refs>>
    /\ UNCHANGED <<ilVars, fecVars, modemVars, syncVars, ccVars, recVars, plVars>>

\* line 122: signal = np.asarray(waveform, dtype=np.float32)
AgcAsArray ==
    /\ agc_pc = "built"
    /\ LET made == np_asarray(agc_heap, agc_refs.waveform) IN
          /\ agc_heap' = made.heap
          /\ agc_refs' = [signal |-> made.ref] @@ agc_refs
    /\ agc_pc' = "asarray"
    /\ UNCHANGED <<agc_scheme, agc_given>>
    /\ UNCHANGED <<ilVars, fecVars, modemVars, syncVars, ccVars, recVars, plVars>>

\* lines 123-124: an empty signal returns at once.
AgcReturnEmpty ==
    /\ agc_pc = "asarray"
    /\ agc_heap[agc_refs.signal].size = 0
    /\ agc_pc' = "returned"
    /\ UNCHANGED <<agc_scheme, agc_given, agc_heap, agc_refs>>
    /\ UNCHANGED <<ilVars, fecVars, modemVars, syncVars, ccVars, recVars, plVars>>

\* line 126, the argument: signal.copy()
AgcCopy ==
    /\ agc_pc = "asarray"
    /\ agc_heap[agc_refs.signal].size # 0
    /\ LET made == np_copy(agc_heap, agc_refs.signal) IN
          /\ agc_heap' = made.heap
          /\ agc_refs' = [argument |-> made.ref] @@ agc_refs
    /\ agc_pc' = "copied"
    /\ UNCHANGED <<agc_scheme, agc_given>>
    /\ UNCHANGED <<ilVars, fecVars, modemVars, syncVars, ccVars, recVars, plVars>>

\* line 126, the call: conditioned = _apply_agc(argument, ...)
AgcApply ==
    /\ agc_pc = "copied"
    /\ agc_heap' = ApplyAgcInPlace(agc_heap, agc_refs.argument)
    /\ agc_refs' = [conditioned |-> agc_refs.argument] @@ agc_refs
    /\ agc_pc' = "scaled"
    /\ UNCHANGED <<agc_scheme, agc_given>>
    /\ UNCHANGED <<ilVars, fecVars, modemVars, syncVars, ccVars, recVars, plVars>>

\* lines 127-207 read conditioned and write no buffer.
AgcReturn ==
    /\ agc_pc = "scaled"
    /\ agc_pc' = "returned"
    /\ UNCHANGED <<agc_scheme, agc_given, agc_heap, agc_refs>>
    /\ UNCHANGED <<ilVars, fecVars, modemVars, syncVars, ccVars, recVars, plVars>>

InitAgc == AgcInit /\ IlParked /\ FecParked /\ ModemParked /\ SyncParked /\ CcParked /\ RecParked /\ PlParked
NextAgc ==
    \/ AgcBuildCodec \/ AgcAsArray \/ AgcReturnEmpty
    \/ AgcCopy \/ AgcApply \/ AgcReturn
SpecAgc == InitAgc /\ [][NextAgc]_vars

\* C12: at every step of decode, and after it returned or raised, the
\* caller's buffer holds what it held when decode was called.
C12_CallerBufferUnchanged == agc_heap.waveform = agc_given

\* decode returned after the AGC changed the level of the samples of a
\* float32 array, which np.asarray hands on as it is.
C12_Witness ==
    /\ agc_pc = "returned"
    /\ agc_refs.signal = "waveform"
    /\ Has(agc_refs, "conditioned")
    /\ agc_heap[agc_refs.conditioned].level # agc_given.level

(***************************************************************************)
(* _synchronize and _scan_for_preamble on given scores.  score[<<n, s>>]   *)
(* is what _correlate returns for samples_per_bit n at start offset s, or  *)
(* NoScore where it returns None; the search below is the code's.          *)
(***************************************************************************)
NoScore == -1000

\* The loop of _scan_for_preamble from one start on: a later start replaces
\* the best only with a greater score.
RECURSIVE ScanFrom(_, _, _, _, _, _)
ScanFrom(score, samples_per_bit, start, start_max, step, best) ==
    IF start > start_max THEN best
    ELSE LET here == score[<<samples_per_bit, start>>]
             next == IF here = NoScore THEN best
                     ELSE IF best = None \/ here > best.score
                          THEN _SymbolSyncResult(start, samples_per_bit, here)
                     ELSE best
         IN  ScanFrom(score, samples_per_bit, start + step, start_max, step, next)

_scan_for_preamble(score, samples_per_bit, start_min, start_max, step) ==
    IF start_min > start_max THEN None
    ELSE ScanFrom(score, samples_per_bit, start_min, start_max, Max(step, 1), None)

\* candidate = refined or coarse_candidate
RefinedOrCoarse(refined, coarse_candidate) ==
    IF refined # None THEN refined ELSE coarse_candidate

\* The body of the loop over candidates for one samples_per_bit value.
SyncStep(score, size, preamble_len, samples_per_bit, best) ==
    LET max_start == size - samples_per_bit * preamble_len
        coarse_candidate ==
            _scan_for_preamble(score, samples_per_bit, 0, max_start,
                               Max(4, samples_per_bit \div 8))
        refined ==
            _scan_for_preamble(score, samples_per_bit,
                               Max(0, coarse_candidate.start_index - samples_per_bit),
                               Min(max_start, coarse_candidate.start_index + samples_per_bit),
                               Max(1, samples_per_bit \div 32))
        candidate == RefinedOrCoarse(refined, coarse_candidate)
    IN  IF max_start < 0 THEN best
        ELSE IF coarse_candidate = None THEN best
        ELSE IF best = None \/ candidate.score > best.score THEN candidate
        ELSE best

\* The loop over sorted(candidates), from the smallest not yet tried.
RECURSIVE SyncLoop(_, _, _, _, _)
SyncLoop(score, size, preamble_len, candidates, best) ==
    IF candidates = {} THEN best
    ELSE LET samples_per_bit == CHOOSE n \in candidates : \A m \in candidates : n <= m
         IN  SyncLoop(score, size, preamble_len, candidates \ {samples_per_bit},
                      SyncStep(score, size, preamble_len, samples_per_bit, best))

\* _synchronize, given the scores of the signal.
SynchronizeScores(score, size, preamble_len, candidates) ==
    IF preamble_len = 0 THEN None
    ELSE SyncLoop(score, size, preamble_len, candidates, None)

(***************************************************************************)
(* Harness: one _synchronize call.  The scores are a base value everywhere *)
(* but at one or two peaks.                                                *)
(***************************************************************************)
SyncRates == {<<16, 2>>, <<19, 2>>}
PeakScores == {50, 90}
BaseScores == {NoScore, 10}

\* The (samples_per_bit, start) pairs at which a preamble fits the signal.
SyncPairs(size, preamble_len, candidates) ==
    {<<n, start>> \in candidates \X (0..size) : start + n * preamble_len <= size}

\* A rate with refine_step = 65 // 32 = 2, and a capture long enough for a
\* coarse start of at least samples_per_bit.
LongRates == <<130, 2>>
LongSlack == 74

\* (rates, preamble length, samples beyond one preamble at the smallest
\* candidate) of the captures tried.
SyncCaptures ==
    (SyncRates \X (0..2) \X {3, MaxSlack}) \cup {<<LongRates, 1, LongSlack>>}

\* Where a peak of the score may lie: in the first samples of the capture
\* or about one long symbol into it.
PeakStarts == (0..MaxSlack) \cup ((LongSlack - MaxSlack)..LongSlack)

SyncInit ==
    /\ sync_pc = "call"
    /\ \E capture \in SyncCaptures :
          LET candidates == Candidates(capture[1][1], capture[1][2])
              smallest == CHOOSE n \in candidates : \A m \in candidates : n <= m
          IN  sync_in = [size |-> smallest * capture[2] + capture[3],
                         preamble_len |-> capture[2],
                         candidates |-> candidates]
    /\ LET pairs == SyncPairs(sync_in.size, sync_in.preamble_len, sync_in.candidates)
           peaks == {pair \in pairs : pair[2] \in PeakStarts}
       IN  \E first \in peaks, second \in peaks, base \in BaseScores,
              high \in PeakScores, other \in PeakScores :
              sync_score = [pair \in pairs |->
                              IF pair = first THEN high
                              ELSE IF pair = second THEN other
                              ELSE base]
    /\ sync_out = Absent

Synchronize ==
    /\ sync_pc = "call"
    /\ sync_out' = SynchronizeScores(sync_score, sync_in.size, sync_in.preamble_len,
                                     sync_in.candidates)
    /\ sync_pc' = "done"
    /\ UNCHANGED <<sync_in, sync_score>>
    /\ UNCHANGED <<ilVars, fecVars, modemVars, agcVars, ccVars, recVars, plVars>>

InitSync == SyncInit /\ IlParked /\ FecParked /\ ModemParked /\ AgcParked /\ CcParked /\ RecParked /\ PlParked
NextSync == Synchronize
SpecSync == InitSync /\ [][NextSync]_vars

SyncDone == sync_pc = "done"

\* The coarse start offsets scanned for one samples_per_bit value.
CoarseStarts(n) ==
    ScanStarts(0, sync_in.size - n * sync_in.preamble_len, Max(4, n \div 8))

Scored(n, starts) == {start \in starts : sync_score[<<n, start>>] # NoScore}

\* The coarse start the refinement is centred on: the first of the best.
CoarseBest(n) ==
    CHOOSE c \in Scored(n, CoarseStarts(n)) :
        \A t \in Scored(n, CoarseStarts(n)) :
            \/ sync_score[<<n, t>>] < sync_score[<<n, c>>]
            \/ sync_score[<<n, t>>] = sync_score[<<n, c>>] /\ c <= t

RefinedStarts(n) ==
    IF Scored(n, CoarseStarts(n)) = {} THEN {}
    ELSE ScanStarts(Max(0, CoarseBest(n) - n),
                    Min(sync_in.size - n * sync_in.preamble_len, CoarseBest(n) + n),
                    Max(1, n \div 32))

\* The pairs _synchronize scores, and when each is scored first:
\* samples_per_bit ascending; coarse starts ascending, then refined starts.
Evaluated ==
    IF sync_in.preamble_len = 0 THEN {}
    ELSE {pair \in DOMAIN sync_score :
            pair[2] \in CoarseStarts(pair[1]) \cup RefinedStarts(pair[1])}

Phase(pair) == IF pair[2] \in CoarseStarts(pair[1]) THEN 0 ELSE 1

EvaluatedBefore(p, q) ==
    \/ p[1] < q[1]
    \/ p[1] = q[1] /\ Phase(p) < Phase(q)
    \/ p[1] = q[1] /\ Phase(p) = Phase(q) /\ p[2] < q[2]

\* C13: of the scored pairs whose score equals exactly the score of the
\* returned result, the returned pair is the one that was scored first.
C13_FirstEvaluatedWinsTies ==
    SyncDone /\ sync_out # None
        => LET kept == <<sync_out.samples_per_bit, sync_out.start_index>>
           IN  \A pair \in Evaluated :
                  sync_score[pair] = sync_out.score => ~EvaluatedBefore(pair, kept)

\* C21: the score of the returned result is at least every score computed
\* in the call, for every pair scored in a coarse or a refined scan.
C21_KeepsBestScore ==
    SyncDone /\ sync_out # None
        => \A pair \in Evaluated :
              sync_score[pair] # NoScore => sync_score[pair] <= sync_out.score

(***************************************************************************)
(* Calls running interleaved.  A call reads the module's DEFAULT_PARAMS    *)
(* when it merges its params over them (line 55 of encode, 112 of decode); *)
(* the merge is shallow, so a call that gives no "fec" of its own reads    *)
(* the fec dict of the defaults when it parses it (lines 63 and 119). The  *)
(* rest of a call works on the call's own arrays.                          *)
(***************************************************************************)
Calls == 1..MaxCalls

\* The defaults of the model, at its scale of rates.
DEFAULT_PARAMS ==
    [sample_rate |-> 16, bitrate |-> 2, preamble_bits |-> <<"1", "0">>,
     fec |-> FecParams("none", 3, 1)]

\* A variant that merges the params into the module's dict itself.
MergeIntoDefaults(defaults, given) ==
    [defaults |-> Update(defaults, given), config |-> Update(defaults, given)]

\* config = {**DEFAULT_PARAMS, **params}: a new dict, the defaults as they
\* were.
MergeOverDefaults(defaults, given) ==
    [defaults |-> defaults, config |-> Update(defaults, given)]

\* config.get("fec", {}): the dict the caller gave, or else the one inside
\* the module's defaults, which the shallow merge did not copy.
FecDictRead(defaults, given, config) ==
    IF Has(given, "fec") THEN config.fec ELSE defaults.fec

\* decode of a waveform whose tones start at sample lead and last spb
\* samples: synchronization finds them and every window is one tone.
DecodeAligned(waveform, config) ==
    LET sync == _SymbolSyncResult(waveform.lead, waveform.spb, 100)
    IN  IF ReachesSynchronize(waveform, config)
        THEN decode(waveform, config, sync,
                    CHOOSE bit_array \in _demodulate_bits(_apply_agc(waveform), sync) : TRUE)
        ELSE decode(waveform, config, None, <<>>)

\* Lines 64-107 of encode, lines 120-207 of decode.
RunCall(call, config) ==
    IF call.op = "encode" THEN encode(call.input, config)
    ELSE DecodeAligned(call.input, config)

Call(op, given, input) == [op |-> op, params |-> given, input |-> input]

CallChoices ==
    { Call("encode", [bitrate |-> 2], <<64>>),
      Call("encode", [fec |-> FecParams("hamming74", 3, 2)], <<165>>),
      Call("decode", [preamble_bits |-> <<"1">>], ForeignWaveform),
      Call("decode", [fec |-> FecParams("repetition", 1, 1)], ForeignWaveform) }

CcInit ==
    /\ cc_pc = [i \in Calls |-> "called"]
    /\ cc_call \in [Calls -> CallChoices]
    /\ cc_defaults = DEFAULT_PARAMS
    /\ cc_config = [i \in Calls |-> <<>>]
    /\ cc_fec = [i \in Calls |-> <<>>]
    /\ cc_result = [i \in Calls |-> <<>>]

\* line 55 / 112
CallMerge(i) ==
    /\ cc_pc[i] = "called"
    /\ LET merged == MergeOverDefaults(cc_defaults, cc_call[i].params) IN
          /\ cc_defaults' = merged.defaults
          /\ cc_config' = [cc_config EXCEPT ![i] = merged.config]
    /\ cc_pc' = [cc_pc EXCEPT ![i] = "merged"]
    /\ UNCHANGED <<cc_call, cc_fec, cc_result>>
    /\ UNCHANGED <<ilVars, fecVars, modemVars, agcVars, syncVars, recVars, plVars>>

\* line 63 / 119
CallParseFec(i) ==
    /\ cc_pc[i] = "merged"
    /\ cc_fec' = [cc_fec EXCEPT
                     ![i] = FecDictRead(cc_defaults, cc_call[i].params, cc_config[i])]
    /\ cc_pc' = [cc_pc EXCEPT ![i] = "parsed"]
    /\ UNCHANGED <<cc_call, cc_defaults, cc_config, cc_result>>
    /\ UNCHANGED <<ilVars, fecVars, modemVars, agcVars, syncVars, recVars, plVars>>

\* the rest of the call
CallRun(i) ==
    /\ cc_pc[i] = "parsed"
    /\ cc_result' = [cc_result EXCEPT
                        ![i] = RunCall(cc_call[i],
                                       Update(cc_config[i], [fec |-> cc_fec[i]]))]
    /\ cc_pc' = [cc_pc EXCEPT ![i] = "returned"]
    /\ UNCHANGED <<cc_call, cc_defaults, cc_config, cc_fec>>
    /\ UNCHANGED <<ilVars, fecVars, modemVars, agcVars, syncVars, recVars, plVars>>

InitCalls ==
    CcInit /\ IlParked /\ FecParked /\ ModemParked /\ AgcParked /\ SyncParked /\ RecParked /\ PlParked
NextCalls == \E i \in Calls : CallMerge(i) \/ CallParseFec(i) \/ CallRun(i)
SpecCalls == InitCalls /\ [][NextCalls]_vars

\* What the call returns when no other call runs.
RunAlone(call) == RunCall(call, Update(DEFAULT_PARAMS, call.params))

\* C18: however the steps of the calls interleave, each call returns what
\* it returns when run alone, and the module's defaults stay as they were.
C18_CallsIndependent ==
    /\ cc_defaults = DEFAULT_PARAMS
    /\ \A i \in Calls :
          cc_pc[i] = "returned" => cc_result[i] = RunAlone(cc_call[i])

\* Two calls with different params and inputs, both returned, the second
\* having merged its params while the first was between two of its steps.
C18_Witness ==
    /\ \A i \in Calls : cc_pc[i] = "returned"
    /\ cc_call[1] # cc_call[2]
    /\ cc_result[1].error = "ok"
    /\ cc_result[2].error = "ok"

(***************************************************************************)
(* PipelineOrchestrator.record: amw/pipeline/orchestrator.py               *)
(* Durations are in tenths of a second, sample values in thousandths.      *)
(***************************************************************************)
Some(value) == [value |-> value]

\* silence_threshold: float = 1e-3
DefaultSilenceThreshold == 1

RECURSIVE np_concatenate(_)
np_concatenate(arrays) ==
    IF arrays = <<>> THEN <<>> ELSE Head(arrays) \o np_concatenate(Tail(arrays))

\* The number of trailing silent samples after one more chunk.
_update_trailing_silence(samples, current, threshold) ==
    IF Len(samples) = 0 THEN current
    ELSE LET above_threshold == {i \in 1..Len(samples) : Abs(samples[i]) > threshold}
         IN  IF above_threshold = {} THEN current + Len(samples)
             ELSE LET last_loud == CHOOSE i \in above_threshold :
                                       \A j \in above_threshold : j <= i
                  IN  Len(samples) - last_loud

\* Lines 155-158: the arguments _record_streaming refuses.
StreamingRefused(args) ==
    \/ args.chunk_duration <= 0
    \/ /\ args.stop_condition = None
       /\ \/ args.silence_timeout = None
          \/ args.silence_timeout.value <= 0

\* A variant that never limits the samples.
StreamingLimitsNoMaximum(args) ==
    [chunk_samples |-> Max(IntTrunc(args.chunk_duration * args.sample_rate, 10), 1),
     silence_limit |->
         IF args.silence_timeout = None THEN 0
         ELSE IntTrunc(args.silence_timeout.value * args.sample_rate, 10),
     max_samples |-> None]

\* Lines 160-163.
StreamingLimits(args) ==
    [chunk_samples |-> Max(IntTrunc(args.chunk_duration * args.sample_rate, 10), 1),
     silence_limit |->
         IF args.silence_timeout = None THEN 0
         ELSE IntTrunc(args.silence_timeout.value * args.sample_rate, 10),
     max_samples |->
         IF args.duration = None \/ args.duration.value = 0 THEN None
         ELSE Some(IntTrunc(args.duration.value * args.sample_rate, 10))]

\* Lines 203-218: what _record_streaming returns once the loop has ended.
StreamingResult(loop, stop_reason) ==
    [error |-> "ok",
     samples |-> np_concatenate(loop.collected),
     metadata |->
         LET added == [stop_reason |-> stop_reason, chunks |-> loop.chunk_count]
         IN  IF loop.collected = <<>> THEN added
             ELSE Update([simulated |-> TRUE], added)]

\* stop_condition(): the callback answers true from its n-th invocation on.
StopRequested(args, invocation) ==
    args.stop_condition # None /\ invocation >= args.stop_condition.value

\* One pass of the while loop with the chunk the audio service delivers;
\* stop_reason is None when the loop goes round again.
LoopPass(args, limits, loop, calls, chunk) ==
    LET asked == args.stop_condition # None
        calls_head == IF asked THEN calls + 1 ELSE calls
        calls_tail == IF asked THEN calls + 2 ELSE calls
        recorded ==
            [collected |-> Append(loop.collected, chunk),
             total_samples |-> loop.total_samples + Len(chunk),
             trailing_silence |-> loop.trailing_silence,
             chunk_count |-> loop.chunk_count + 1]
        trailing == _update_trailing_silence(chunk, loop.trailing_silence,
                                             args.silence_threshold)
        listened == [recorded EXCEPT !.trailing_silence = trailing]
    IN  IF StopRequested(args, calls_head)
        THEN [loop |-> loop, calls |-> calls_head, stop_reason |-> Some("user")]
        ELSE IF limits.max_samples # None
                /\ loop.total_samples >= limits.max_samples.value
        THEN [loop |-> loop, calls |-> calls_head, stop_reason |-> Some("duration")]
        ELSE IF StopRequested(args, calls_tail)
        THEN [loop |-> recorded, calls |-> calls_tail, stop_reason |-> Some("user")]
        ELSE IF limits.silence_limit > 0
        THEN [loop |-> listened, calls |-> calls_tail,
              stop_reason |-> IF trailing >= limits.silence_limit
                              THEN Some("silence") ELSE None]
        ELSE [loop |-> recorded, calls |-> calls_tail, stop_reason |-> None]

RecSampleRates == {4, 10}
Durations == {None, Some(0), Some(1), Some(3)}
SilenceTimeouts == {None, Some(0), Some(1), Some(5)}
StopConditions == {None, Some(1), Some(2), Some(3)}
ChunkDurations == {0, 5}

\* What the audio service delivers for one request.
AudioChunks ==
    { <<>>, <<0>>, <<5>>, <<0, 0>>, <<5, 0>>, <<0, 5>>, <<1, 1>>, <<-5, 0>> }

RecInit ==
    /\ rec_pc = "called"
    /\ rec_args \in [sample_rate : RecSampleRates,
                     duration : Durations,
                     stop_condition : StopConditions,
                     silence_timeout : SilenceTimeouts,
                     chunk_duration : ChunkDurations,
                     silence_threshold : {DefaultSilenceThreshold}]
    /\ rec_limits = None
    /\ rec_loop = None
    /\ rec_calls = 0
    /\ rec_result = None

\* record up to its loop: a fixed recording, a refusal, or the loop's
\* locals set up.
Record ==
    /\ rec_pc = "called"
    /\ IF rec_args.stop_condition = None /\ rec_args.silence_timeout = None
       THEN /\ UNCHANGED <<rec_limits, rec_loop>>
            /\ IF rec_args.duration = None
               THEN /\ rec_pc' = "raised"
                    /\ rec_result' = [error |-> "ValueError"]
               ELSE /\ rec_pc' = "returned"
                    /\ \E chunk \in AudioChunks :
                          rec_result' = [error |-> "ok", samples |-> chunk,
                                         metadata |-> [simulated |-> TRUE]]
       ELSE IF StreamingRefused(rec_args)
       THEN /\ rec_pc' = "raised"
            /\ rec_result' = [error |-> "ValueError"]
            /\ UNCHANGED <<rec_limits, rec_loop>>
       ELSE /\ rec_pc' = "loop"
            /\ rec_limits' = StreamingLimits(rec_args)
            /\ rec_loop' = [collected |-> <<>>, total_samples |-> 0,
                            trailing_silence |-> 0, chunk_count |-> 0]
            /\ UNCHANGED rec_result
    /\ UNCHANGED <<rec_args, rec_calls>>
    /\ UNCHANGED <<ilVars, fecVars, modemVars, agcVars, syncVars, ccVars, plVars>>

\* One pass of the loop, and the return when the pass ends it.  The run is
\* followed until MaxChunks chunks are recorded.
RecordLoop ==
    /\ rec_pc = "loop"
    /\ \E chunk \in AudioChunks :
          LET pass == LoopPass(rec_args, rec_limits, rec_loop, rec_calls, chunk) IN
             /\ pass.loop.chunk_count <= MaxChunks
             /\ rec_loop' = pass.loop
             /\ rec_calls' = pass.calls
             /\ IF pass.stop_reason = None
                THEN UNCHANGED <<rec_pc, rec_result>>
                ELSE /\ rec_pc' = "returned"
                     /\ rec_result' = StreamingResult(pass.loop, pass.stop_reason.value)
    /\ UNCHANGED <<rec_args, rec_limits>>
    /\ UNCHANGED <<ilVars, fecVars, modemVars, agcVars, syncVars, ccVars, plVars>>

InitRecord ==
    RecInit /\ IlParked /\ FecParked /\ ModemParked /\ AgcParked /\ SyncParked /\ CcParked /\ PlParked
NextRecord == Record \/ RecordLoop
SpecRecord == InitRecord /\ [][NextRecord]_vars

\* The recording is streamed: the loop was entered.
Streamed == rec_pc = "loop" \/ (rec_pc = "returned" /\ Has(rec_result.metadata, "stop_reason"))

StopReason == rec_result.metadata.stop_reason

\* The trailing samples of an array with |x| <= threshold, counted.
RECURSIVE TrailingSilent(_, _)
TrailingSilent(samples, threshold) ==
    IF samples = <<>> \/ Abs(samples[Len(samples)]) > threshold THEN 0
    ELSE 1 + TrailingSilent(SubSeq(samples, 1, Len(samples) - 1), threshold)

\* At the end of the k-th chunk the trailing silence has reached
\* silence_timeout x sample_rate.
SilenceReached(k) ==
    10 * TrailingSilent(np_concatenate(SubSeq(rec_loop.collected, 1, k)),
                        rec_args.silence_threshold)
        >= rec_args.silence_timeout.value * rec_args.sample_rate

\* C19: with a silence_timeout > 0 and no stop_condition, a streaming
\* record has returned with stop_reason 'silence' as soon as a chunk ends
\* with the trailing silence at silence_timeout x sample_rate, never before,
\* and it returns every chunk recorded, concatenated in order.
C19_StopsOnSilence ==
    ( /\ Streamed
      /\ rec_args.stop_condition = None
      /\ rec_args.silence_timeout # None
      /\ rec_args.silence_timeout.value > 0 )
    => LET chunks == Len(rec_loop.collected) IN
       /\ (chunks > 0 /\ SilenceReached(chunks))
             => (rec_pc = "returned" /\ StopReason = "silence")
       /\ (rec_pc = "returned" /\ StopReason = "silence")
             => /\ chunks > 0
                /\ SilenceReached(chunks)
                /\ \A k \in 1..(chunks - 1) : ~SilenceReached(k)
       /\ rec_pc = "returned"
             => rec_result.samples = np_concatenate(rec_loop.collected)

\* C20: with a stop_condition that first answers true on its n-th
\* invocation, record has returned with stop_reason 'user' once the callback
\* has answered true, and the recording then holds at least n chunks.
C20_HonoursStopRequest ==
    (Streamed /\ rec_args.stop_condition # None)
    => LET n == rec_args.stop_condition.value IN
       /\ rec_calls >= n => (rec_pc = "returned" /\ StopReason = "user")
       /\ (rec_pc = "returned" /\ StopReason = "user")
             => Len(rec_loop.collected) >= n

\* The loop keeps running: a pass that can be taken is taken.
SpecRecordLive ==
    InitRecord /\ [][NextRecord]_vars /\ WF_vars(Record) /\ WF_vars(RecordLoop)

\* The samples captured so far, and those captured before the last chunk.
Captured == Len(np_concatenate(rec_loop.collected))

CapturedBeforeLast ==
    Captured - Len(rec_loop.collected[Len(rec_loop.collected)])

DurationGiven == Streamed /\ rec_args.duration # None

MaxSamples == IntTrunc(rec_args.duration.value * rec_args.sample_rate, 10)

DurationLimited == DurationGiven /\ rec_args.duration.value > 0

C25_Safety ==
    /\ (Streamed /\ rec_pc = "returned")
          => StopReason \in {"user", "duration", "silence"}
    /\ (DurationLimited /\ rec_loop.collected # <<>>)
          => CapturedBeforeLast < MaxSamples
    /\ (Streamed /\ rec_pc = "returned" /\ StopReason = "duration")
          => /\ DurationLimited
             /\ Len(rec_result.samples) >= MaxSamples

EmptyChunkRecorded ==
    Streamed /\ \E k \in 1..Len(rec_loop.collected) : rec_loop.collected[k] = <<>>

NoArtifacts ==
    [tx_waveform |-> None, rx_raw |-> None, rx_conditioned |-> None,
     decoded_payload |-> None,
     metadata |-> [encode |-> None, record |-> None, condition |-> None,
                   decode |-> None]]

\* Conditioner.condition: scaling by the peak changes neither which samples
\* are zero nor which tone a symbol carries.
Conditioner_condition(samples) ==
    [waveform |-> samples, metrics |-> [normalized |-> TRUE]]

\* PluginRegistry.get(name): the plugin, or None.
KnownPlugins == {"BFSK Reference"}
PluginNames == KnownPlugins \cup {"Unknown"}

\* The params configured: the plugin's defaults, or an unknown FEC scheme,
\* for which encode and decode raise.
PipelineParams ==
    {DEFAULT_PARAMS, Update([fec |-> FecParams("turbo", 3, 1)], DEFAULT_PARAMS)}

\* payload_builder.build(payload_spec)
PipelinePayload == <<64>>

\* What the audio service may capture: the waveform built from the
\* defaults, or another transmitter's.
Captures == {encode(PipelinePayload, DEFAULT_PARAMS).waveform, ForeignWaveform}

\* The arguments of record that matter to its outcome.
RecordArgs(duration, stop_condition, silence_timeout, chunk_duration) ==
    [duration |-> duration, stop_condition |-> stop_condition,
     silence_timeout |-> silence_timeout, chunk_duration |-> chunk_duration]

RecordCalls ==
    { RecordArgs(Some(5), None, None, 5),
      RecordArgs(None, None, None, 5),
      RecordArgs(Some(5), None, Some(5), 0),
      RecordArgs(Some(5), None, Some(5), 5) }

PlayOutcomes == {"ok", "PortAudioError"}

\* The pipeline as a call finds it.
Before ==
    [state |-> pl_state, artifacts |-> pl_artifacts,
     configured |-> pl_context # None, since |-> pl_since]

Called_(op, outcome) == [op |-> op, outcome |-> outcome, before |-> Before]

PlInit ==
    /\ pl_context = None
    /\ pl_state = "IDLE"
    /\ pl_artifacts = NoArtifacts
    /\ pl_since = {}
    /\ pl_last = [op |-> "__init__", outcome |-> "ok",
                  before |-> [state |-> "IDLE", artifacts |-> NoArtifacts,
                              configured |-> FALSE, since |-> {}]]

\* A variant that keeps the artifacts of the earlier configuration.
configure_keeping_artifacts(plugin_name, given) ==
    /\ IF plugin_name \notin KnownPlugins
       THEN /\ pl_last' = Called_("configure", "ValueError")
            /\ UNCHANGED <<pl_context, pl_state, pl_artifacts, pl_since>>
       ELSE /\ pl_context' = [plugin |-> plugin_name, params |-> given]
            /\ pl_state' = "IDLE"
            /\ pl_since' = {}
            /\ pl_last' = Called_("configure", "ok")
            /\ UNCHANGED pl_artifacts
    /\ UNCHANGED <<ilVars, fecVars, modemVars, agcVars, syncVars, ccVars, recVars>>

configure(plugin_name, given) ==
    /\ IF plugin_name \notin KnownPlugins
       THEN /\ pl_last' = Called_("configure", "ValueError")
            /\ UNCHANGED <<pl_context, pl_state, pl_artifacts, pl_since>>
       ELSE /\ pl_context' = [plugin |-> plugin_name, params |-> given]
            /\ pl_state' = "IDLE"
            /\ pl_artifacts' = NoArtifacts
            /\ pl_since' = {}
            /\ pl_last' = Called_("configure", "ok")
    /\ UNCHANGED <<ilVars, fecVars, modemVars, agcVars, syncVars, ccVars, recVars>>

build ==
    /\ IF pl_context = None
       THEN /\ pl_last' = Called_("build", "RuntimeError")
            /\ UNCHANGED <<pl_state, pl_artifacts, pl_since>>
       ELSE LET encode_output == encode(PipelinePayload, pl_context.params) IN
            IF encode_output.error # "ok"
            THEN /\ pl_last' = Called_("build", encode_output.error)
                 /\ UNCHANGED <<pl_state, pl_artifacts, pl_since>>
            ELSE /\ pl_artifacts' =
                       [pl_artifacts EXCEPT
                           !.tx_waveform = Some(encode_output.waveform),
                           !.metadata.encode = Some(encode_output.metadata)]
                 /\ pl_state' = "BUILT"
                 /\ pl_since' = pl_since \cup {"build"}
                 /\ pl_last' = Called_("build", "ok")
    /\ UNCHANGED pl_context
    /\ UNCHANGED <<ilVars, fecVars, modemVars, agcVars, syncVars, ccVars, recVars>>

transmit(played) ==
    /\ IF pl_artifacts.tx_waveform = None
       THEN /\ pl_last' = Called_("transmit", "RuntimeError")
            /\ UNCHANGED <<pl_state, pl_since>>
       ELSE /\ pl_state' = "TRANSMITTING"
            /\ pl_last' = Called_("transmit", played)
            /\ pl_since' = IF played = "ok" THEN pl_since \cup {"transmit"} ELSE pl_since
    /\ UNCHANGED <<pl_context, pl_artifacts>>
    /\ UNCHANGED <<ilVars, fecVars, modemVars, agcVars, syncVars, ccVars, recVars>>

record(args, capture) ==
    /\ IF pl_context = None
       THEN /\ pl_last' = Called_("record", "RuntimeError")
            /\ UNCHANGED <<pl_state, pl_artifacts, pl_since>>
       ELSE /\ pl_state' = "RECORDING"
            /\ IF \/ /\ args.stop_condition = None
                     /\ args.silence_timeout = None
                     /\ args.duration = None
                  \/ /\ ~(args.stop_condition = None /\ args.silence_timeout = None)
                     /\ StreamingRefused(args)
               THEN /\ pl_last' = Called_("record", "ValueError")
                    /\ UNCHANGED <<pl_artifacts, pl_since>>
               ELSE /\ pl_artifacts' =
                          [pl_artifacts EXCEPT
                              !.rx_raw = Some(capture),
                              !.metadata.record = Some([simulated |-> TRUE])]
                    /\ pl_since' = pl_since \cup {"record"}
                    /\ pl_last' = Called_("record", "ok")
    /\ UNCHANGED pl_context
    /\ UNCHANGED <<ilVars, fecVars, modemVars, agcVars, syncVars, ccVars, recVars>>

condition ==
    /\ IF pl_artifacts.rx_raw = None \/ pl_context = None
       THEN /\ pl_last' = Called_("condition", "RuntimeError")
            /\ UNCHANGED <<pl_state, pl_artifacts, pl_since>>
       ELSE LET conditioned == Conditioner_condition(pl_artifacts.rx_raw.value) IN
            /\ pl_artifacts' =
                  [pl_artifacts EXCEPT
                      !.rx_conditioned = Some(conditioned.waveform),
                      !.metadata.condition = Some(conditioned.metrics)]
            /\ pl_state' = "CONDITIONED"
            /\ pl_since' = pl_since \cup {"condition"}
            /\ pl_last' = Called_("condition", "ok")
    /\ UNCHANGED pl_context
    /\ UNCHANGED <<ilVars, fecVars, modemVars, agcVars, syncVars, ccVars, recVars>>

decode_ ==
    /\ IF pl_artifacts.rx_conditioned = None \/ pl_context = None
       THEN /\ pl_last' = Called_("decode", "RuntimeError")
            /\ UNCHANGED <<pl_state, pl_artifacts, pl_since>>
       ELSE LET decode_output ==
                    DecodeAligned(pl_artifacts.rx_conditioned.value, pl_context.params)
            IN  IF decode_output.error # "ok"
                THEN /\ pl_last' = Called_("decode", decode_output.error)
                     /\ UNCHANGED <<pl_state, pl_artifacts, pl_since>>
                ELSE /\ pl_artifacts' =
                           [pl_artifacts EXCEPT
                               !.decoded_payload = Some(decode_output.payload),
                               !.metadata.decode = Some(decode_output.metrics)]
                     /\ pl_state' = "DECODED"
                     /\ pl_since' = pl_since \cup {"decode"}
                     /\ pl_last' = Called_("decode", "ok")
    /\ UNCHANGED pl_context
    /\ UNCHANGED <<ilVars, fecVars, modemVars, agcVars, syncVars, ccVars, recVars>>

InitPipeline ==
    /\ PlInit
    /\ IlParked /\ FecParked /\ ModemParked
    /\ AgcParked /\ SyncParked /\ CcParked /\ RecParked
NextPipeline ==
    \/ \E plugin_name \in PluginNames, given \in PipelineParams :
          configure(plugin_name, given)
    \/ build
    \/ \E played \in PlayOutcomes : transmit(played)
    \/ \E args \in RecordCalls, capture \in Captures : record(args, capture)
    \/ condition
    \/ decode_
SpecPipeline == InitPipeline /\ [][NextPipeline]_vars

\* What a call needs to have succeeded since the last configure that did,
\* if anything.
Predecessor(op) ==
    CASE op = "transmit"  -> {"build"}
      [] op = "condition" -> {"record"}
      [] op = "decode"    -> {"condition"}
      [] OTHER            -> {}

\* The last call found the pipeline without what it needs: never
\* configured, or its predecessor not run since configure.
MissingPredecessor ==
    \/ pl_last.op \in {"build", "record", "condition", "decode"}
          /\ ~pl_last.before.configured
    \/ ~(Predecessor(pl_last.op) \subseteq pl_last.before.since)

PipelineUntouched ==
    /\ pl_state = pl_last.before.state
    /\ pl_artifacts = pl_last.before.artifacts

\* C28: build, record, condition and decode raise RuntimeError unless
\* configure has succeeded; transmit succeeds only after build, condition
\* only after record and decode only after condition, each since the last
\* configure; a call rejected for a missing predecessor raises RuntimeError
\* and leaves the state and every artifact as they were.
C28_StageOrdering ==
    /\ pl_last.outcome = "ok" => ~MissingPredecessor
    /\ MissingPredecessor
          => /\ pl_last.outcome = "RuntimeError"
             /\ PipelineUntouched

\* decode was rejected on a configured pipeline that had recorded and not
\* conditioned.
C28_Witness ==
    /\ pl_last.op = "decode"
    /\ pl_last.outcome = "RuntimeError"
    /\ pl_last.before.configured
    /\ "record" \in pl_last.before.since
    /\ pl_last.before.state = "RECORDING"

\* C29: rx_conditioned, when set, is the conditioning of the current
\* rx_raw, and decoded_payload, when set, is the decoding of the current
\* rx_conditioned.
C29_ArtifactsConsistent ==
    /\ pl_artifacts.rx_conditioned # None
          => /\ pl_artifacts.rx_raw # None
             /\ pl_artifacts.rx_conditioned
                   = Some(Conditioner_condition(pl_artifacts.rx_raw.value).waveform)
    /\ pl_artifacts.decoded_payload # None
          => /\ pl_artifacts.rx_conditioned # None
             /\ pl_artifacts.decoded_payload
                   = Some(DecodeAligned(pl_artifacts.rx_conditioned.value,
                                        pl_context.params).payload)

\* C30: an operation that raised left the state and every artifact as they
\* were before the call.
C30_UnchangedOnError ==
    pl_last.outcome # "ok" => PipelineUntouched

=============================================================================
